---- MODULE Spec2Model ----
(***************************************************************************)
(* A model of the quant-iron state-vector simulator core:                  *)
(*   src/src/components/operator.rs  (validator, operators, kernels)       *)
(*   src/src/circuit.rs              (Circuit, CircuitBuilder)             *)
(*                                                                         *)
(* Amplitudes.  The program computes with Complex<f64>.  The model         *)
(* computes exactly in the ring Z[i, 1/sqrt 2]: an amplitude is the tuple  *)
(* <<a, b, c, d, k>> standing for ((a + b*sqrt2) + i*(c + d*sqrt2)) / 2^k, *)
(* kept in normal form (k minimal).  All matrix entries of H, X, Y, Z, S,  *)
(* T, the rotations by multiples of pi/2 and the phase shifts by multiples *)
(* of pi/4 lie in this ring.  Floating-point rounding is not modelled.     *)
(*                                                                         *)
(* Slices.  A Rust slice v[0..n-1] is the TLA+ sequence v[1..n]; basis     *)
(* indices and qubit indices keep the program's 0-based numbering.         *)
(***************************************************************************)
EXTENDS Integers, Sequences, FiniteSets, TLC

VARIABLES
    circuit,    \* the caller's Circuit value: [gates, num_qubits]
    builder,    \* the caller's CircuitBuilder value: [gates, num_qubits]
    call,       \* the last Circuit / CircuitBuilder call and what it returned
    psi,        \* the caller's State value handed to execute / trace_execution
    exec_out,   \* what Circuit::execute returned
    trace_out,  \* what Circuit::trace_execution returned
    v_in,       \* arguments of a validate_qubits call
    v_out,      \* its result
    op_in,      \* arguments of an Operator::apply call: [op, state, targets, controls]
    op_out,     \* its result
    op_again,   \* the result of a second apply, on the state the first returned
    steps,      \* the number of apply calls made so far
    GPU_CONTEXT,  \* the process-wide accelerator context behind its mutex
    threads     \* the threads calling apply on the accelerator path

vars == <<circuit, builder, call, psi, exec_out, trace_out, v_in, v_out, op_again, steps, op_in, op_out,
          GPU_CONTEXT, threads>>

----------------------------------------------------------------------------
(* Bounds of the model *)

\* largest qubit count of the states handed to Operator::apply
MaxQubits == 3
\* longest target list handed to validate_qubits / Operator::apply
MaxTargets == 2
\* longest control list handed to validate_qubits / Operator::apply
MaxControls == 2
\* longest gate list of a Circuit or CircuitBuilder under construction
MaxGates == 2
\* longest gate list of a Circuit that is executed
MaxExecGates == 3
\* largest small qubit index handed to validate_qubits
MaxIndex == 2

(* Program constants *)

PARALLEL_THRESHOLD_NUM_QUBITS == 10
OPENCL_THRESHOLD_NUM_QUBITS == 15
\* cfg!(feature = "gpu"): the build modelled is the one without the gpu feature
\* (components/gpu_context is not part of the source tree at hand)
gpu_enabled == FALSE
\* the number of targets every apply but SWAP's passes to validate_qubits
SINGLE_TARGET == 1
\* the number of targets SWAP::apply passes to validate_qubits
SWAP_TARGETS == 2
\* the number of controls CNOT::apply requires
CNOT_CONTROLS == 1
\* the number of controls Toffoli::apply requires
TOFFOLI_CONTROLS == 2

----------------------------------------------------------------------------
(* Results: Rust's Result<T, Error> *)

Ok(v) == [ok |-> TRUE, val |-> v]
Err(e) == [ok |-> FALSE, err |-> e]
Unit == "unit"

InvalidNumberOfQubits(n) == [kind |-> "InvalidNumberOfQubits", a |-> n]
InvalidQubitIndex(q, n) == [kind |-> "InvalidQubitIndex", a |-> q, b |-> n]
OverlappingControlAndTargetQubits(c, t) ==
    [kind |-> "OverlappingControlAndTargetQubits", a |-> c, b |-> t]

----------------------------------------------------------------------------
(* Bit operations on usize basis indices *)

RECURSIVE Pow2(_)
Pow2(n) == IF n = 0 THEN 1 ELSE 2 * Pow2(n - 1)

\* (i >> q) & 1
Bit(i, q) == (i \div Pow2(q)) % 2
\* i | (1 << q)
SetBit(i, q) == IF Bit(i, q) = 1 THEN i ELSE i + Pow2(q)
\* i ^ (1 << q)
FlipBit(i, q) == IF Bit(i, q) = 1 THEN i - Pow2(q) ELSE i + Pow2(q)

----------------------------------------------------------------------------
(* Exact complex arithmetic in Z[i, 1/sqrt 2] *)

AllEven(x) == x[1] % 2 = 0 /\ x[2] % 2 = 0 /\ x[3] % 2 = 0 /\ x[4] % 2 = 0

RECURSIVE Norm(_)
Norm(x) ==
    IF x[5] > 0 /\ AllEven(x)
    THEN Norm(<<x[1] \div 2, x[2] \div 2, x[3] \div 2, x[4] \div 2, x[5] - 1>>)
    ELSE x

\* x written over the denominator 2^k, k >= x[5]
Scale(x, k) ==
    LET m == Pow2(k - x[5]) IN <<m * x[1], m * x[2], m * x[3], m * x[4], k>>

CAdd(x, y) ==
    LET k == IF x[5] >= y[5] THEN x[5] ELSE y[5]
        xs == Scale(x, k)
        ys == Scale(y, k)
    IN Norm(<<xs[1] + ys[1], xs[2] + ys[2], xs[3] + ys[3], xs[4] + ys[4], k>>)

CNeg(x) == <<0 - x[1], 0 - x[2], 0 - x[3], 0 - x[4], x[5]>>

CSub(x, y) == CAdd(x, CNeg(y))

\* (a + b sqrt2)(a' + b' sqrt2) = (aa' + 2bb') + (ab' + ba') sqrt2
CMul(x, y) ==
    LET rr1 == x[1] * y[1] + 2 * x[2] * y[2]
        rr2 == x[1] * y[2] + x[2] * y[1]
        ii1 == x[3] * y[3] + 2 * x[4] * y[4]
        ii2 == x[3] * y[4] + x[4] * y[3]
        ri1 == x[1] * y[3] + 2 * x[2] * y[4]
        ri2 == x[1] * y[4] + x[2] * y[3]
        ir1 == x[3] * y[1] + 2 * x[4] * y[2]
        ir2 == x[3] * y[2] + x[4] * y[1]
    IN Norm(<<rr1 - ii1, rr2 - ii2, ri1 + ir1, ri2 + ir2, x[5] + y[5]>>)

\* complex conjugate
CConj(x) == <<x[1], x[2], 0 - x[3], 0 - x[4], x[5]>>

CZero == <<0, 0, 0, 0, 0>>
COne == <<1, 0, 0, 0, 0>>
\* Complex::new(0.0, 1.0)
i_complex == <<0, 0, 1, 0, 0>>
\* 1.0 / (2.0f64).sqrt()
sqrt_2_inv == <<0, 1, 0, 0, 1>>

\* cos(k * pi/4) and sin(k * pi/4)
CosPi4(k) ==
    LET r == k % 8 IN
    CASE r = 0 -> COne
      [] r = 1 -> sqrt_2_inv
      [] r = 2 -> CZero
      [] r = 3 -> CNeg(sqrt_2_inv)
      [] r = 4 -> CNeg(COne)
      [] r = 5 -> CNeg(sqrt_2_inv)
      [] r = 6 -> CZero
      [] r = 7 -> sqrt_2_inv

SinPi4(k) == CosPi4(k - 2)

\* Complex::new(re, im) for real re, im
Complex_new(re, im) == CAdd(re, CMul(i_complex, im))

RECURSIVE CPow(_, _)
CPow(x, n) == IF n = 0 THEN COne ELSE CMul(x, CPow(x, n - 1))

----------------------------------------------------------------------------
(* State { state_vector, num_qubits }: state_vector is a function on        *)
(* 0 .. 2^num_qubits - 1                                                    *)

State(sv, n) == [state_vector |-> sv, num_qubits |-> n]

Dim(n) == Pow2(n)

\* the computational basis state |k> on n qubits
BasisState(n, k) ==
    State([i \in 0 .. Dim(n) - 1 |-> IF i = k THEN COne ELSE CZero], n)

\* a normalised state with an amplitude of its own at (almost) every index:
\* amplitude j is w^j / sqrt(2)^n, w = exp(i pi/4)
PhaseRampState(n) ==
    State([j \in 0 .. Dim(n) - 1 |->
              CMul(CPow(sqrt_2_inv, n), Complex_new(CosPi4(j), SinPi4(j)))], n)

----------------------------------------------------------------------------
(* validate_qubits, operator.rs:172-231 *)

\* mutant: the error carries the position in the list, not the qubit index
RECURSIVE validate_targets_in_range_position(_, _, _)
validate_targets_in_range_position(target_qubits, num_qubits, i) ==
    IF i > Len(target_qubits) THEN Ok(Unit)
    ELSE IF target_qubits[i] >= num_qubits
         THEN Err(InvalidQubitIndex(i - 1, num_qubits))
         ELSE validate_targets_in_range_position(target_qubits, num_qubits, i + 1)

\* for &target_qubit in target_qubits { if target_qubit >= num_qubits ... }
RECURSIVE validate_targets_in_range(_, _, _)
validate_targets_in_range(target_qubits, num_qubits, i) ==
    IF i > Len(target_qubits) THEN Ok(Unit)
    ELSE IF target_qubits[i] >= num_qubits
         THEN Err(InvalidQubitIndex(target_qubits[i], num_qubits))
         ELSE validate_targets_in_range(target_qubits, num_qubits, i + 1)

\* inner loop: for &target_qubit in target_qubits { if control_qubit == target_qubit ... }
RECURSIVE validate_no_overlap(_, _, _)
validate_no_overlap(control_qubit, target_qubits, j) ==
    IF j > Len(target_qubits) THEN Ok(Unit)
    ELSE IF control_qubit = target_qubits[j]
         THEN Err(OverlappingControlAndTargetQubits(control_qubit, target_qubits[j]))
         ELSE validate_no_overlap(control_qubit, target_qubits, j + 1)

\* mutant: the overlap loop is missing
RECURSIVE validate_controls_no_overlap_check(_, _, _, _)
validate_controls_no_overlap_check(control_qubits, target_qubits, num_qubits, i) ==
    IF i > Len(control_qubits) THEN Ok(Unit)
    ELSE IF control_qubits[i] >= num_qubits
         THEN Err(InvalidQubitIndex(control_qubits[i], num_qubits))
         ELSE validate_controls_no_overlap_check(control_qubits, target_qubits,
                                                 num_qubits, i + 1)

\* for &control_qubit in control_qubits { range check; overlap loop }
RECURSIVE validate_controls(_, _, _, _)
validate_controls(control_qubits, target_qubits, num_qubits, i) ==
    IF i > Len(control_qubits) THEN Ok(Unit)
    ELSE IF control_qubits[i] >= num_qubits
         THEN Err(InvalidQubitIndex(control_qubits[i], num_qubits))
         ELSE LET r == validate_no_overlap(control_qubits[i], target_qubits, 1)
              IN IF ~r.ok THEN r
                 ELSE validate_controls(control_qubits, target_qubits, num_qubits, i + 1)

\* HashSet branch: the first element that is already in seen_targets
RECURSIVE validate_no_duplicates_hashset(_, _, _, _)
validate_no_duplicates_hashset(target_qubits, num_qubits, seen_targets, i) ==
    IF i > Len(target_qubits) THEN Ok(Unit)
    ELSE IF target_qubits[i] \in seen_targets
         THEN Err(InvalidQubitIndex(target_qubits[i], num_qubits))
         ELSE validate_no_duplicates_hashset(target_qubits, num_qubits,
                                             seen_targets \cup {target_qubits[i]}, i + 1)

\* nested-loop branch: for i in 0..len { for j in i+1..len { ... } }
RECURSIVE validate_no_duplicates_nested(_, _, _, _)
validate_no_duplicates_nested(target_qubits, num_qubits, i, j) ==
    IF i > Len(target_qubits) THEN Ok(Unit)
    ELSE IF j > Len(target_qubits)
         THEN validate_no_duplicates_nested(target_qubits, num_qubits, i + 1, i + 2)
         ELSE IF target_qubits[i] = target_qubits[j]
              THEN Err(InvalidQubitIndex(target_qubits[i], num_qubits))
              ELSE validate_no_duplicates_nested(target_qubits, num_qubits, i, j + 1)

validate_qubits(state, target_qubits, control_qubits, expected_targets) ==
    IF Len(target_qubits) # expected_targets
    THEN Err(InvalidNumberOfQubits(Len(target_qubits)))
    ELSE
    LET num_qubits == state.num_qubits
        r1 == validate_targets_in_range(target_qubits, num_qubits, 1)
        r2 == validate_controls(control_qubits, target_qubits, num_qubits, 1)
    IN IF ~r1.ok THEN r1
       ELSE IF ~r2.ok THEN r2
       ELSE IF expected_targets > 1
            THEN IF num_qubits >= PARALLEL_THRESHOLD_NUM_QUBITS
                 THEN validate_no_duplicates_hashset(target_qubits, num_qubits, {}, 1)
                 ELSE validate_no_duplicates_nested(target_qubits, num_qubits, 1, 2)
            ELSE Ok(Unit)

----------------------------------------------------------------------------
(* Loop helpers *)

\* for i in 0..n { acc = Body(i, acc) }
ForLoop(n, init, Body(_, _)) ==
    LET f[i \in 0 .. n] == IF i = 0 THEN init ELSE Body(i - 1, f[i - 1]) IN f[n]

\* (0..n).into_par_iter().filter_map(Item).flatten().collect(): the updates of
\* the work items in index order (rayon's collect keeps the order of an
\* indexed iterator); Item(i) is <<>> for None
ParCollect(n, Item(_)) ==
    LET f[i \in 0 .. n] == IF i = 0 THEN <<>> ELSE f[i - 1] \o Item(i - 1) IN f[n]

\* for (idx, val) in updates { new_state_vec[idx] = val; }
WriteUpdates(new_state_vec, updates) ==
    ForLoop(Len(updates), new_state_vec,
            LAMBDA k, nsv: [nsv EXCEPT ![updates[k + 1][1]] = updates[k + 1][2]])

\* new_state_vec[i] = vi; new_state_vec[j] = vj;
Write2(new_state_vec, i, vi, j, vj) ==
    [[new_state_vec EXCEPT ![i] = vi] EXCEPT ![j] = vj]

\* Some(vec![(i, vi), (j, vj)])
Updates2(i, vi, j, vj) == <<<<i, vi>>, <<j, vj>>>>

\* the branch of the three-way dispatch an apply takes (operator.rs:278-345)
\* mutant: the thresholds themselves fall on the slower side
Dispatch_above_threshold(num_qubits, gpu) ==
    IF num_qubits > OPENCL_THRESHOLD_NUM_QUBITS /\ gpu THEN "gpu"
    ELSE IF num_qubits > PARALLEL_THRESHOLD_NUM_QUBITS THEN "parallel"
    ELSE "sequential"

\* the if / else if / else chain every kernel but Unitary2's goes through
\* (operator.rs:280, 293, 345 and the like), gpu standing for
\* cfg!(feature = "gpu")
Dispatch(num_qubits, gpu) ==
    IF num_qubits >= OPENCL_THRESHOLD_NUM_QUBITS /\ gpu THEN "gpu"
    ELSE IF num_qubits >= PARALLEL_THRESHOLD_NUM_QUBITS THEN "parallel"
    ELSE "sequential"

\* the chain in a build without the gpu feature
Backend(num_qubits) == Dispatch(num_qubits, gpu_enabled)

\* the if / else of Unitary2::apply (operator.rs:1800, 1822)
Unitary2_dispatch(nq) ==
    IF nq >= PARALLEL_THRESHOLD_NUM_QUBITS THEN "parallel" ELSE "sequential"

\* mutant: any() in place of all()
check_controls_any(index, control_qubits) ==
    \E k \in 1 .. Len(control_qubits) : Bit(index, control_qubits[k]) = 1

\* operator.rs:153-157
check_controls(index, control_qubits) ==
    \A k \in 1 .. Len(control_qubits) : Bit(index, control_qubits[k]) = 1

----------------------------------------------------------------------------
(* Hadamard, operator.rs:261-380 *)

\* the pair index without the shift past the target bit
PairIndex0_unshifted(k, target_qubit) ==
    (k \div Pow2(target_qubit)) * Pow2(target_qubit) + (k % Pow2(target_qubit))

\* i0 = (k >> t << (t + 1)) | (k & ((1 << t) - 1))
PairIndex0(k, target_qubit) ==
    (k \div Pow2(target_qubit)) * Pow2(target_qubit + 1) + (k % Pow2(target_qubit))

\* mutant: the second amplitude of a pair is the sum too, not the difference
Hadamard_sequential_sum_only(state, target_qubit, control_qubits) ==
    LET old == state.state_vector
        dim == Pow2(state.num_qubits)
    IN IF Len(control_qubits) = 0
       THEN ForLoop(Pow2(state.num_qubits - 1), old,
                LAMBDA k, nsv:
                    LET i0 == PairIndex0(k, target_qubit)
                        i1 == SetBit(i0, target_qubit)
                        amp0 == old[i0]
                        amp1 == old[i1]
                    IN Write2(nsv, i0, CMul(sqrt_2_inv, CAdd(amp0, amp1)),
                                   i1, CMul(sqrt_2_inv, CAdd(amp0, amp1))))
       ELSE ForLoop(dim, old,
                LAMBDA i, nsv:
                    IF Bit(i, target_qubit) = 0
                    THEN LET j == SetBit(i, target_qubit) IN
                         IF check_controls(i, control_qubits)
                         THEN Write2(nsv, i, CMul(sqrt_2_inv, CAdd(old[i], old[j])),
                                          j, CMul(sqrt_2_inv, CAdd(old[i], old[j])))
                         ELSE nsv
                    ELSE nsv)

Hadamard_sequential(state, target_qubit, control_qubits) ==
    LET old == state.state_vector
        dim == Pow2(state.num_qubits)
    IN IF Len(control_qubits) = 0
       THEN ForLoop(Pow2(state.num_qubits - 1), old,
                LAMBDA k, nsv:
                    LET i0 == PairIndex0(k, target_qubit)
                        i1 == SetBit(i0, target_qubit)
                        amp0 == old[i0]
                        amp1 == old[i1]
                    IN Write2(nsv, i0, CMul(sqrt_2_inv, CAdd(amp0, amp1)),
                                   i1, CMul(sqrt_2_inv, CSub(amp0, amp1))))
       ELSE ForLoop(dim, old,
                LAMBDA i, nsv:
                    IF Bit(i, target_qubit) = 0
                    THEN LET j == SetBit(i, target_qubit) IN
                         IF check_controls(i, control_qubits)
                         THEN Write2(nsv, i, CMul(sqrt_2_inv, CAdd(old[i], old[j])),
                                          j, CMul(sqrt_2_inv, CSub(old[i], old[j])))
                         ELSE nsv
                    ELSE nsv)

\* let updates: Vec<(usize, Complex<f64>)> = (..).into_par_iter()..collect()
Hadamard_updates(state, target_qubit, control_qubits) ==
    LET old == state.state_vector
        dim == Pow2(state.num_qubits)
    IN IF Len(control_qubits) = 0
       THEN ParCollect(Pow2(state.num_qubits - 1),
                    LAMBDA k:
                        LET i0 == PairIndex0(k, target_qubit)
                            i1 == SetBit(i0, target_qubit)
                            amp0 == old[i0]
                            amp1 == old[i1]
                        IN Updates2(i0, CMul(sqrt_2_inv, CAdd(amp0, amp1)),
                                    i1, CMul(sqrt_2_inv, CSub(amp0, amp1))))
       ELSE ParCollect(dim,
                    LAMBDA i:
                        IF Bit(i, target_qubit) = 0
                        THEN LET j == SetBit(i, target_qubit) IN
                             IF check_controls(i, control_qubits)
                             THEN Updates2(i, CMul(sqrt_2_inv, CAdd(old[i], old[j])),
                                           j, CMul(sqrt_2_inv, CSub(old[i], old[j])))
                             ELSE <<>>
                        ELSE <<>>)

\* the rayon branch: the updates, written one after the other
Hadamard_parallel(state, target_qubit, control_qubits) ==
    WriteUpdates(state.state_vector, Hadamard_updates(state, target_qubit, control_qubits))

Hadamard_apply(state, target_qubits, control_qubits) ==
    LET v == validate_qubits(state, target_qubits, control_qubits, SINGLE_TARGET) IN
    IF ~v.ok THEN v
    ELSE LET target_qubit == target_qubits[1]
             num_qubits == state.num_qubits
         IN CASE Backend(num_qubits) = "parallel" ->
                   Ok(State(Hadamard_parallel(state, target_qubit, control_qubits),
                            num_qubits))
              [] Backend(num_qubits) = "sequential" ->
                   Ok(State(Hadamard_sequential(state, target_qubit, control_qubits),
                            num_qubits))

----------------------------------------------------------------------------
(* Pauli, operator.rs:420-556 *)

\* mutant: X and Y read the partner's amplitude from new_state_vec, after
\* the first write of the pair
Pauli_sequential_in_place(self, state, target_qubit, control_qubits) ==
    LET old == state.state_vector
        dim == Pow2(state.num_qubits)
    IN ForLoop(dim, old,
           LAMBDA i, nsv:
               IF check_controls(i, control_qubits)
               THEN CASE self = "X" ->
                           IF Bit(i, target_qubit) = 0
                           THEN LET j == SetBit(i, target_qubit)
                                    w == [nsv EXCEPT ![i] = nsv[j]]
                                IN [w EXCEPT ![j] = w[i]]
                           ELSE nsv
                      [] self = "Y" ->
                           IF Bit(i, target_qubit) = 0
                           THEN LET j == SetBit(i, target_qubit)
                                    w == [nsv EXCEPT ![i] = CMul(CNeg(i_complex), nsv[j])]
                                IN [w EXCEPT ![j] = CMul(i_complex, w[i])]
                           ELSE nsv
                      [] self = "Z" ->
                           IF Bit(i, target_qubit) = 1
                           THEN [nsv EXCEPT ![i] = CNeg(nsv[i])]
                           ELSE nsv
               ELSE nsv)

Pauli_sequential(self, state, target_qubit, control_qubits) ==
    LET old == state.state_vector
        dim == Pow2(state.num_qubits)
    IN ForLoop(dim, old,
           LAMBDA i, nsv:
               IF check_controls(i, control_qubits)
               THEN CASE self = "X" ->
                           IF Bit(i, target_qubit) = 0
                           THEN LET j == SetBit(i, target_qubit)
                                IN Write2(nsv, i, old[j], j, old[i])
                           ELSE nsv
                      [] self = "Y" ->
                           IF Bit(i, target_qubit) = 0
                           THEN LET j == SetBit(i, target_qubit)
                                IN Write2(nsv, i, CMul(CNeg(i_complex), old[j]),
                                               j, CMul(i_complex, old[i]))
                           ELSE nsv
                      [] self = "Z" ->
                           IF Bit(i, target_qubit) = 1
                           THEN [nsv EXCEPT ![i] = CNeg(old[i])]
                           ELSE nsv
               ELSE nsv)

\* let updates: Vec<(usize, Complex<f64>)> = (..).into_par_iter()..collect()
Pauli_updates(self, state, target_qubit, control_qubits) ==
    LET old == state.state_vector
        dim == Pow2(state.num_qubits)
    IN CASE self = "X" ->
              ParCollect(dim,
                      LAMBDA i:
                          IF check_controls(i, control_qubits) /\ Bit(i, target_qubit) = 0
                          THEN LET j == SetBit(i, target_qubit)
                               IN Updates2(i, old[j], j, old[i])
                          ELSE <<>>)
         [] self = "Y" ->
              ParCollect(dim,
                      LAMBDA i:
                          IF check_controls(i, control_qubits) /\ Bit(i, target_qubit) = 0
                          THEN LET j == SetBit(i, target_qubit)
                               IN Updates2(i, CMul(CNeg(i_complex), old[j]),
                                           j, CMul(i_complex, old[i]))
                          ELSE <<>>)

\* the rayon branch
Pauli_parallel(self, state, target_qubit, control_qubits) ==
    LET old == state.state_vector
    IN CASE self \in {"X", "Y"} ->
              WriteUpdates(old, Pauli_updates(self, state, target_qubit, control_qubits))
         [] self = "Z" ->
              \* par_iter_mut().enumerate().for_each: element i reads old[i] only
              [i \in DOMAIN old |->
                  IF check_controls(i, control_qubits) /\ Bit(i, target_qubit) = 1
                  THEN CNeg(old[i]) ELSE old[i]]

Pauli_apply(self, state, target_qubits, control_qubits) ==
    LET v == validate_qubits(state, target_qubits, control_qubits, SINGLE_TARGET) IN
    IF ~v.ok THEN v
    ELSE LET target_qubit == target_qubits[1]
             num_qubits == state.num_qubits
         IN CASE Backend(num_qubits) = "parallel" ->
                   Ok(State(Pauli_parallel(self, state, target_qubit, control_qubits),
                            state.num_qubits))
              [] Backend(num_qubits) = "sequential" ->
                   Ok(State(Pauli_sequential(self, state, target_qubit, control_qubits),
                            state.num_qubits))

----------------------------------------------------------------------------
(* CNOT, operator.rs:601-623 *)

\* mutant: the roles of target and control are exchanged
CNOT_apply_roles_exchanged(state, target_qubits, control_qubits) ==
    LET v == validate_qubits(state, target_qubits, control_qubits, SINGLE_TARGET) IN
    IF ~v.ok THEN v
    ELSE IF Len(control_qubits) # CNOT_CONTROLS
         THEN Err(InvalidNumberOfQubits(Len(control_qubits)))
         ELSE Pauli_apply("X", state, <<control_qubits[1]>>, target_qubits)

\* a CNOT that counts its controls before it validates them
CNOT_apply_count_first(state, target_qubits, control_qubits) ==
    IF Len(control_qubits) # CNOT_CONTROLS
    THEN Err(InvalidNumberOfQubits(Len(control_qubits)))
    ELSE LET v == validate_qubits(state, target_qubits, control_qubits, SINGLE_TARGET) IN
         IF ~v.ok THEN v
         ELSE Pauli_apply("X", state, target_qubits, <<control_qubits[1]>>)

CNOT_apply(state, target_qubits, control_qubits) ==
    LET v == validate_qubits(state, target_qubits, control_qubits, SINGLE_TARGET) IN
    IF ~v.ok THEN v
    ELSE IF Len(control_qubits) # CNOT_CONTROLS
         THEN Err(InvalidNumberOfQubits(Len(control_qubits)))
         ELSE LET control_qubit == control_qubits[1]
              IN Pauli_apply("X", state, target_qubits, <<control_qubit>>)

----------------------------------------------------------------------------
(* SWAP, operator.rs:659-748 *)

SWAP_sequential(state, target_qubit_1, target_qubit_2, control_qubits) ==
    LET old == state.state_vector
        dim == Pow2(state.num_qubits)
    IN ForLoop(dim, old,
           LAMBDA i, nsv:
               LET target_bit_1 == Bit(i, target_qubit_1)
                   target_bit_2 == Bit(i, target_qubit_2)
               IN IF target_bit_1 # target_bit_2
                  THEN LET j == FlipBit(FlipBit(i, target_qubit_1), target_qubit_2)
                       IN IF i < j
                          THEN IF check_controls(i, control_qubits)
                               THEN Write2(nsv, i, old[j], j, old[i])
                               ELSE nsv
                          ELSE nsv
                  ELSE nsv)

\* SWAP's work items without the `i < j` of the filter: both ends of a pair
\* produce the pair's updates
SWAP_updates_unordered(state, target_qubit_1, target_qubit_2, control_qubits) ==
    LET old == state.state_vector
        dim == Pow2(state.num_qubits)
    IN ParCollect(dim,
           LAMBDA i:
               IF Bit(i, target_qubit_1) # Bit(i, target_qubit_2)
               THEN LET j == FlipBit(FlipBit(i, target_qubit_1), target_qubit_2)
                    IN IF check_controls(i, control_qubits)
                       THEN Updates2(i, old[j], j, old[i])
                       ELSE <<>>
               ELSE <<>>)

\* let updates: Vec<(usize, Complex<f64>)> = (..).into_par_iter()..collect()
SWAP_updates(state, target_qubit_1, target_qubit_2, control_qubits) ==
    LET old == state.state_vector
        dim == Pow2(state.num_qubits)
    IN ParCollect(dim,
               LAMBDA i:
                   LET target_bit_1 == Bit(i, target_qubit_1)
                       target_bit_2 == Bit(i, target_qubit_2)
                   IN IF target_bit_1 # target_bit_2
                      THEN LET j == FlipBit(FlipBit(i, target_qubit_1), target_qubit_2)
                           IN IF i < j /\ check_controls(i, control_qubits)
                              THEN Updates2(i, old[j], j, old[i])
                              ELSE <<>>
                      ELSE <<>>)

\* the rayon branch: the updates, written one after the other
SWAP_parallel(state, target_qubit_1, target_qubit_2, control_qubits) ==
    WriteUpdates(state.state_vector, SWAP_updates(state, target_qubit_1, target_qubit_2, control_qubits))

SWAP_apply(state, target_qubits, control_qubits) ==
    LET v == validate_qubits(state, target_qubits, control_qubits, SWAP_TARGETS) IN
    IF ~v.ok THEN v
    ELSE LET target_qubit_1 == target_qubits[1]
             target_qubit_2 == target_qubits[2]
             num_qubits == state.num_qubits
         IN CASE Backend(num_qubits) = "parallel" ->
                   Ok(State(SWAP_parallel(state, target_qubit_1, target_qubit_2,
                                          control_qubits), state.num_qubits))
              [] Backend(num_qubits) = "sequential" ->
                   Ok(State(SWAP_sequential(state, target_qubit_1, target_qubit_2,
                                            control_qubits), state.num_qubits))

----------------------------------------------------------------------------
(* Toffoli, operator.rs:783-807 *)

\* mutant: two equal controls are let through
Toffoli_apply_equal_controls(state, target_qubits, control_qubits) ==
    LET v == validate_qubits(state, target_qubits, control_qubits, SINGLE_TARGET) IN
    IF ~v.ok THEN v
    ELSE IF Len(control_qubits) # TOFFOLI_CONTROLS
         THEN Err(InvalidNumberOfQubits(Len(control_qubits)))
         ELSE Pauli_apply("X", state, target_qubits, control_qubits)

\* mutant: only the first control is handed on
Toffoli_apply_first_control(state, target_qubits, control_qubits) ==
    LET v == validate_qubits(state, target_qubits, control_qubits, SINGLE_TARGET) IN
    IF ~v.ok THEN v
    ELSE IF Len(control_qubits) # TOFFOLI_CONTROLS
         THEN Err(InvalidNumberOfQubits(Len(control_qubits)))
         ELSE IF control_qubits[1] = control_qubits[2]
              THEN Err(InvalidNumberOfQubits(Len(control_qubits)))
              ELSE Pauli_apply("X", state, target_qubits, <<control_qubits[1]>>)

Toffoli_apply(state, target_qubits, control_qubits) ==
    LET v == validate_qubits(state, target_qubits, control_qubits, SINGLE_TARGET) IN
    IF ~v.ok THEN v
    ELSE IF Len(control_qubits) # TOFFOLI_CONTROLS
         THEN Err(InvalidNumberOfQubits(Len(control_qubits)))
         ELSE IF control_qubits[1] = control_qubits[2]
              THEN Err(InvalidNumberOfQubits(Len(control_qubits)))
              ELSE Pauli_apply("X", state, target_qubits, control_qubits)

----------------------------------------------------------------------------
(* Identity, operator.rs:834-849 *)

\* mutant: the copy is returned without running the validator
Identity_apply_unvalidated(state, target_qubits, control_qubits) == Ok(state)

\* mutant: the validator is not shown the controls
Identity_apply_controls_unchecked(state, target_qubits, control_qubits) ==
    LET v == validate_qubits(state, target_qubits, <<>>, SINGLE_TARGET) IN
    IF ~v.ok THEN v ELSE Ok(state)

Identity_apply(state, target_qubits, control_qubits) ==
    LET v == validate_qubits(state, target_qubits, control_qubits, SINGLE_TARGET) IN
    IF ~v.ok THEN v ELSE Ok(state)

----------------------------------------------------------------------------
(* The phase kernels PhaseS, PhaseT, PhaseSdag, PhaseTdag, PhaseShift share  *)
(* one shape (operator.rs:906-927, 998-1021, 1088-1109, 1180-1203,           *)
(* 1294-1315): amplitude i is multiplied by phase_factor when the target bit *)
(* of i is 1 and the controls hold                                           *)

Phase_sequential(state, target_qubit, control_qubits, phase_factor) ==
    LET old == state.state_vector
        dim == Pow2(state.num_qubits)
    IN ForLoop(dim, old,
           LAMBDA i, nsv:
               LET target_bit_is_one == Bit(i, target_qubit) = 1
               IN IF target_bit_is_one /\ check_controls(i, control_qubits)
                  THEN [nsv EXCEPT ![i] = CMul(old[i], phase_factor)]
                  ELSE nsv)

\* mutant: the parallel closure does not consult the controls
Phase_parallel_uncontrolled(state, target_qubit, control_qubits, phase_factor) ==
    LET old == state.state_vector
    IN [i \in DOMAIN old |->
           IF Bit(i, target_qubit) = 1 THEN CMul(old[i], phase_factor) ELSE old[i]]

Phase_parallel(state, target_qubit, control_qubits, phase_factor) ==
    LET old == state.state_vector
    IN [i \in DOMAIN old |->
           IF Bit(i, target_qubit) = 1 /\ check_controls(i, control_qubits)
           THEN CMul(old[i], phase_factor) ELSE old[i]]

Phase_apply(state, target_qubits, control_qubits, phase_factor) ==
    LET v == validate_qubits(state, target_qubits, control_qubits, SINGLE_TARGET) IN
    IF ~v.ok THEN v
    ELSE LET target_qubit == target_qubits[1]
             num_qubits == state.num_qubits
         IN CASE Backend(num_qubits) = "parallel" ->
                   Ok(State(Phase_parallel(state, target_qubit, control_qubits,
                                           phase_factor), num_qubits))
              [] Backend(num_qubits) = "sequential" ->
                   Ok(State(Phase_sequential(state, target_qubit, control_qubits,
                                             phase_factor), num_qubits))

\* operator.rs:876-933, phase_factor = Complex::new(0.0, 1.0)
PhaseS_apply(state, target_qubits, control_qubits) ==
    Phase_apply(state, target_qubits, control_qubits, Complex_new(CZero, COne))

\* mutant: the phase factor 1 + i, not divided by the square root of 2
PhaseT_apply_unscaled(state, target_qubits, control_qubits) ==
    Phase_apply(state, target_qubits, control_qubits, Complex_new(COne, COne))

\* operator.rs:964-1027, phase_factor = Complex::new(invsqrt2, invsqrt2)
PhaseT_apply(state, target_qubits, control_qubits) ==
    Phase_apply(state, target_qubits, control_qubits,
                Complex_new(sqrt_2_inv, sqrt_2_inv))

\* mutant: the phase factor of PhaseS in place of its conjugate
PhaseSdag_apply_factor_i(state, target_qubits, control_qubits) ==
    Phase_apply(state, target_qubits, control_qubits, Complex_new(CZero, COne))

\* operator.rs:1058-1115, phase_factor = Complex::new(0.0, -1.0)
PhaseSdag_apply(state, target_qubits, control_qubits) ==
    Phase_apply(state, target_qubits, control_qubits, Complex_new(CZero, CNeg(COne)))

\* operator.rs:1146-1209, phase_factor = Complex::new(invsqrt2, -invsqrt2)
PhaseTdag_apply(state, target_qubits, control_qubits) ==
    Phase_apply(state, target_qubits, control_qubits,
                Complex_new(sqrt_2_inv, CNeg(sqrt_2_inv)))

\* operator.rs:1261-1321; self.angle counts multiples of pi/4
PhaseShift_apply(self, state, target_qubits, control_qubits) ==
    Phase_apply(state, target_qubits, control_qubits,
                Complex_new(CosPi4(self.angle), SinPi4(self.angle)))

----------------------------------------------------------------------------
(* RotateX, RotateY, RotateZ, operator.rs:1365-1711.  self.angle counts     *)
(* multiples of pi/2, so that half_angle = self.angle / 2.0 is self.angle   *)
(* multiples of pi/4                                                        *)

RotateX_sequential(self, state, target_qubit, control_qubits) ==
    LET old == state.state_vector
        dim == Pow2(state.num_qubits)
        cos_half == CosPi4(self.angle)
        sin_half == SinPi4(self.angle)
    IN ForLoop(dim, old,
           LAMBDA i, nsv:
               IF Bit(i, target_qubit) = 0
               THEN LET j == SetBit(i, target_qubit) IN
                    IF check_controls(i, control_qubits)
                    THEN LET amp_i == old[i]
                             amp_j == old[j]
                         IN Write2(nsv,
                              i, CSub(CMul(cos_half, amp_i),
                                      CMul(CMul(i_complex, sin_half), amp_j)),
                              j, CAdd(CMul(CMul(CNeg(i_complex), sin_half), amp_i),
                                      CMul(cos_half, amp_j)))
                    ELSE nsv
               ELSE nsv)

\* let updates: Vec<(usize, Complex<f64>)> = (..).into_par_iter()..collect()
RotateX_updates(self, state, target_qubit, control_qubits) ==
    LET old == state.state_vector
        dim == Pow2(state.num_qubits)
        cos_half == CosPi4(self.angle)
        sin_half == SinPi4(self.angle)
    IN ParCollect(dim,
               LAMBDA i:
                   IF Bit(i, target_qubit) = 0 /\ check_controls(i, control_qubits)
                   THEN LET j == SetBit(i, target_qubit)
                            amp_i == old[i]
                            amp_j == old[j]
                        IN Updates2(
                             i, CSub(CMul(cos_half, amp_i),
                                     CMul(CMul(i_complex, sin_half), amp_j)),
                             j, CAdd(CMul(CMul(CNeg(i_complex), sin_half), amp_i),
                                     CMul(cos_half, amp_j)))
                   ELSE <<>>)

\* the rayon branch: the updates, written one after the other
RotateX_parallel(self, state, target_qubit, control_qubits) ==
    WriteUpdates(state.state_vector, RotateX_updates(self, state, target_qubit, control_qubits))

RotateX_apply(self, state, target_qubits, control_qubits) ==
    LET v == validate_qubits(state, target_qubits, control_qubits, SINGLE_TARGET) IN
    IF ~v.ok THEN v
    ELSE LET target_qubit == target_qubits[1]
             num_qubits == state.num_qubits
         IN CASE Backend(num_qubits) = "parallel" ->
                   Ok(State(RotateX_parallel(self, state, target_qubit, control_qubits),
                            state.num_qubits))
              [] Backend(num_qubits) = "sequential" ->
                   Ok(State(RotateX_sequential(self, state, target_qubit, control_qubits),
                            state.num_qubits))

\* an RY loop that writes the lower index of a pair only
RotateY_sequential_lower_only(self, state, target_qubit, control_qubits) ==
    LET old == state.state_vector
        dim == Pow2(state.num_qubits)
        cos_half == CosPi4(self.angle)
        sin_half == SinPi4(self.angle)
    IN ForLoop(dim, old,
           LAMBDA i, nsv:
               IF Bit(i, target_qubit) = 0 /\ check_controls(i, control_qubits)
               THEN LET j == SetBit(i, target_qubit)
                    IN [nsv EXCEPT ![i] = CSub(CMul(cos_half, old[i]),
                                               CMul(sin_half, old[j]))]
               ELSE nsv)

RotateY_sequential(self, state, target_qubit, control_qubits) ==
    LET old == state.state_vector
        dim == Pow2(state.num_qubits)
        cos_half == CosPi4(self.angle)
        sin_half == SinPi4(self.angle)
    IN ForLoop(dim, old,
           LAMBDA i, nsv:
               IF Bit(i, target_qubit) = 0
               THEN LET j == SetBit(i, target_qubit) IN
                    IF check_controls(i, control_qubits)
                    THEN LET amp_i == old[i]
                             amp_j == old[j]
                         IN Write2(nsv,
                              i, CSub(CMul(cos_half, amp_i), CMul(sin_half, amp_j)),
                              j, CAdd(CMul(sin_half, amp_i), CMul(cos_half, amp_j)))
                    ELSE nsv
               ELSE nsv)

\* let updates: Vec<(usize, Complex<f64>)> = (..).into_par_iter()..collect()
RotateY_updates(self, state, target_qubit, control_qubits) ==
    LET old == state.state_vector
        dim == Pow2(state.num_qubits)
        cos_half == CosPi4(self.angle)
        sin_half == SinPi4(self.angle)
    IN ParCollect(dim,
               LAMBDA i:
                   IF Bit(i, target_qubit) = 0 /\ check_controls(i, control_qubits)
                   THEN LET j == SetBit(i, target_qubit)
                            amp_i == old[i]
                            amp_j == old[j]
                        IN Updates2(
                             i, CSub(CMul(cos_half, amp_i), CMul(sin_half, amp_j)),
                             j, CAdd(CMul(sin_half, amp_i), CMul(cos_half, amp_j)))
                   ELSE <<>>)

\* the rayon branch: the updates, written one after the other
RotateY_parallel(self, state, target_qubit, control_qubits) ==
    WriteUpdates(state.state_vector, RotateY_updates(self, state, target_qubit, control_qubits))

RotateY_apply(self, state, target_qubits, control_qubits) ==
    LET v == validate_qubits(state, target_qubits, control_qubits, SINGLE_TARGET) IN
    IF ~v.ok THEN v
    ELSE LET target_qubit == target_qubits[1]
             num_qubits == state.num_qubits
         IN CASE Backend(num_qubits) = "parallel" ->
                   Ok(State(RotateY_parallel(self, state, target_qubit, control_qubits),
                            state.num_qubits))
              [] Backend(num_qubits) = "sequential" ->
                   Ok(State(RotateY_sequential(self, state, target_qubit, control_qubits),
                            state.num_qubits))

RotateZ_sequential(self, state, target_qubit, control_qubits) ==
    LET old == state.state_vector
        dim == Pow2(state.num_qubits)
        phase_0 == Complex_new(CosPi4(self.angle), CNeg(SinPi4(self.angle)))
        phase_1 == Complex_new(CosPi4(self.angle), SinPi4(self.angle))
    IN ForLoop(dim, old,
           LAMBDA i, nsv:
               IF check_controls(i, control_qubits)
               THEN LET target_bit_is_one == Bit(i, target_qubit) = 1
                    IN IF target_bit_is_one
                       THEN [nsv EXCEPT ![i] = CMul(old[i], phase_1)]
                       ELSE [nsv EXCEPT ![i] = CMul(old[i], phase_0)]
               ELSE nsv)

RotateZ_parallel(self, state, target_qubit, control_qubits) ==
    LET old == state.state_vector
        phase_0 == Complex_new(CosPi4(self.angle), CNeg(SinPi4(self.angle)))
        phase_1 == Complex_new(CosPi4(self.angle), SinPi4(self.angle))
    IN [i \in DOMAIN old |->
           IF check_controls(i, control_qubits)
           THEN IF Bit(i, target_qubit) = 1
                THEN CMul(old[i], phase_1)
                ELSE CMul(old[i], phase_0)
           ELSE old[i]]

RotateZ_apply(self, state, target_qubits, control_qubits) ==
    LET v == validate_qubits(state, target_qubits, control_qubits, SINGLE_TARGET) IN
    IF ~v.ok THEN v
    ELSE LET target_qubit == target_qubits[1]
             num_qubits == state.num_qubits
         IN CASE Backend(num_qubits) = "parallel" ->
                   Ok(State(RotateZ_parallel(self, state, target_qubit, control_qubits),
                            state.num_qubits))
              [] Backend(num_qubits) = "sequential" ->
                   Ok(State(RotateZ_sequential(self, state, target_qubit, control_qubits),
                            state.num_qubits))

----------------------------------------------------------------------------
(* Unitary2, operator.rs:1784-1845.  self.matrix[r][c] of the program is    *)
(* self.matrix[r + 1][c + 1] here.  The dispatch has no accelerator branch. *)

Unitary2_sequential(self, state, t, control_qubits) ==
    LET old == state.state_vector
        dim == Pow2(state.num_qubits)
    IN ForLoop(dim, old,
           LAMBDA i, nsv:
               IF Bit(i, t) = 0
               THEN LET j == SetBit(i, t) IN
                    IF check_controls(i, control_qubits)
                    THEN LET ai == old[i]
                             aj == old[j]
                         IN Write2(nsv,
                              i, CAdd(CMul(self.matrix[1][1], ai),
                                      CMul(self.matrix[1][2], aj)),
                              j, CAdd(CMul(self.matrix[2][1], ai),
                                      CMul(self.matrix[2][2], aj)))
                    ELSE nsv
               ELSE nsv)

\* let updates: Vec<(usize, Complex<f64>)> = (..).into_par_iter()..collect()
Unitary2_updates(self, state, t, control_qubits) ==
    LET old == state.state_vector
        dim == Pow2(state.num_qubits)
    IN ParCollect(dim,
               LAMBDA i:
                   IF Bit(i, t) = 0 /\ check_controls(i, control_qubits)
                   THEN LET j == SetBit(i, t)
                            ai == old[i]
                            aj == old[j]
                        IN Updates2(
                             i, CAdd(CMul(self.matrix[1][1], ai),
                                     CMul(self.matrix[1][2], aj)),
                             j, CAdd(CMul(self.matrix[2][1], ai),
                                     CMul(self.matrix[2][2], aj)))
                   ELSE <<>>)

\* the rayon branch: the updates, written one after the other
Unitary2_parallel(self, state, t, control_qubits) ==
    WriteUpdates(state.state_vector, Unitary2_updates(self, state, t, control_qubits))

Unitary2_apply(self, state, target_qubits, control_qubits) ==
    LET v == validate_qubits(state, target_qubits, control_qubits, SINGLE_TARGET) IN
    IF ~v.ok THEN v
    ELSE LET t == target_qubits[1]
             nq == state.num_qubits
         IN IF Unitary2_dispatch(nq) = "parallel"
            THEN Ok(State(Unitary2_parallel(self, state, t, control_qubits), nq))
            ELSE Ok(State(Unitary2_sequential(self, state, t, control_qubits), nq))

----------------------------------------------------------------------------
(* Operator values and the trait's dynamic dispatch, operator.rs:109-148 *)

Hadamard == [name |-> "Hadamard"]
Pauli(p) == [name |-> "Pauli", pauli |-> p]
CNOT == [name |-> "CNOT"]
SWAP == [name |-> "SWAP"]
Toffoli == [name |-> "Toffoli"]
Identity == [name |-> "Identity"]
PhaseS == [name |-> "PhaseS"]
PhaseT == [name |-> "PhaseT"]
PhaseSdag == [name |-> "PhaseSdag"]
PhaseTdag == [name |-> "PhaseTdag"]
PhaseShift_new(angle) == [name |-> "PhaseShift", angle |-> angle]
RotateX_new(angle) == [name |-> "RotateX", angle |-> angle]
RotateY_new(angle) == [name |-> "RotateY", angle |-> angle]
RotateZ_new(angle) == [name |-> "RotateZ", angle |-> angle]
Unitary2_of(matrix) == [name |-> "Unitary2", matrix |-> matrix]

\* operator.apply(state, target_qubits, control_qubits) on a Box<dyn Operator>
Operator_apply(op, state, target_qubits, control_qubits) ==
    CASE op.name = "Hadamard" -> Hadamard_apply(state, target_qubits, control_qubits)
      [] op.name = "Pauli" -> Pauli_apply(op.pauli, state, target_qubits, control_qubits)
      [] op.name = "CNOT" -> CNOT_apply(state, target_qubits, control_qubits)
      [] op.name = "SWAP" -> SWAP_apply(state, target_qubits, control_qubits)
      [] op.name = "Toffoli" -> Toffoli_apply(state, target_qubits, control_qubits)
      [] op.name = "Identity" -> Identity_apply(state, target_qubits, control_qubits)
      [] op.name = "PhaseS" -> PhaseS_apply(state, target_qubits, control_qubits)
      [] op.name = "PhaseT" -> PhaseT_apply(state, target_qubits, control_qubits)
      [] op.name = "PhaseSdag" -> PhaseSdag_apply(state, target_qubits, control_qubits)
      [] op.name = "PhaseTdag" -> PhaseTdag_apply(state, target_qubits, control_qubits)
      [] op.name = "PhaseShift" -> PhaseShift_apply(op, state, target_qubits, control_qubits)
      [] op.name = "RotateX" -> RotateX_apply(op, state, target_qubits, control_qubits)
      [] op.name = "RotateY" -> RotateY_apply(op, state, target_qubits, control_qubits)
      [] op.name = "RotateZ" -> RotateZ_apply(op, state, target_qubits, control_qubits)
      [] op.name = "Unitary2" -> Unitary2_apply(op, state, target_qubits, control_qubits)

\* fn base_qubits(&self) -> usize of every impl Operator
base_qubits(op) ==
    CASE op.name = "CNOT" -> 2
      [] op.name = "SWAP" -> 2
      [] op.name = "Toffoli" -> 3
      [] OTHER -> 1

\* the backend op.apply runs its kernel on, for a state of num_qubits qubits
\* that passed validation: CNOT and Toffoli hand over to Pauli::X.apply,
\* Identity runs no kernel
Operator_backend(op, num_qubits, gpu) ==
    CASE op.name = "Unitary2" -> Unitary2_dispatch(num_qubits)
      [] op.name = "Identity" -> "none"
      [] OTHER -> Dispatch(num_qubits, gpu)

----------------------------------------------------------------------------
(* Values shared by the specifications *)

SeqsUpTo(S, n) == UNION {[1 .. k -> S] : k \in 0 .. n}

Range(s) == {s[k] : k \in 1 .. Len(s)}

\* a variable that takes no part in a specification
Idle == [kind |-> "idle"]

\* a call that has not returned yet
Pending == [kind |-> "pending"]

----------------------------------------------------------------------------
(* SpecValidate: validate_qubits as a pure function.  Init draws the        *)
(* arguments, Validate applies the function.  The state argument is given   *)
(* by its qubit count (validate_qubits reads nothing else of it); the       *)
(* counts and indices include the threshold at which the duplicate check    *)
(* switches to the HashSet.                                                 *)

V_Indices == (0 .. MaxIndex) \cup {PARALLEL_THRESHOLD_NUM_QUBITS}
V_Qubits == (0 .. MaxIndex + 1) \cup {PARALLEL_THRESHOLD_NUM_QUBITS}

V_Inputs ==
    [num_qubits : V_Qubits,
     target_qubits : SeqsUpTo(V_Indices, MaxTargets),
     control_qubits : SeqsUpTo(V_Indices, MaxControls),
     expected_targets : 0 .. MaxTargets]

\* a State of n qubits; only num_qubits is read by validate_qubits
StateOfQubits(n) == State([i \in 0 .. Dim(n) - 1 |-> IF i = 0 THEN COne ELSE CZero], n)

InitValidate ==
    /\ GPU_CONTEXT = Idle /\ threads = Idle
    /\ v_in \in V_Inputs
    /\ v_out = Pending
    /\ circuit = Idle /\ builder = Idle /\ call = Idle
    /\ psi = Idle /\ exec_out = Idle /\ trace_out = Idle
    /\ op_again = Idle /\ steps = 0
    /\ op_in = Idle /\ op_out = Idle

Validate ==
    /\ v_in # Idle
    /\ v_out = Pending
    /\ v_out' = validate_qubits(StateOfQubits(v_in.num_qubits), v_in.target_qubits,
                                v_in.control_qubits, v_in.expected_targets)
    /\ UNCHANGED <<GPU_CONTEXT, threads, circuit, builder, call, psi, exec_out, trace_out, v_in, op_again, steps, op_in, op_out>>

NextValidate == Validate

SpecValidate == InitValidate /\ [][NextValidate]_vars

\* the four rules of the validator, stated on the arguments
V_CountOk == Len(v_in.target_qubits) = v_in.expected_targets
V_RangeOk ==
    /\ \A q \in Range(v_in.target_qubits) : q < v_in.num_qubits
    /\ \A q \in Range(v_in.control_qubits) : q < v_in.num_qubits
V_NoOverlap == Range(v_in.control_qubits) \cap Range(v_in.target_qubits) = {}
V_RepeatedTargets ==
    {v_in.target_qubits[k] : k \in
        {k \in 1 .. Len(v_in.target_qubits) :
            \E l \in 1 .. Len(v_in.target_qubits) :
                l # k /\ v_in.target_qubits[l] = v_in.target_qubits[k]}}
V_NoRepeat == v_in.expected_targets > 1 => V_RepeatedTargets = {}
V_Returned == v_in # Idle /\ v_out # Pending

\* C6: validate_qubits returns Ok exactly when the target count is the
\* expected one, every target and control index is below num_qubits, no
\* control equals a target and, for expected > 1, no target is repeated
\* (repeated controls alone are accepted).
C6_ValidatorOkExactlyWhenRulesHold ==
    V_Returned =>
        (v_out.ok <=> (V_CountOk /\ V_RangeOk /\ V_NoOverlap /\ V_NoRepeat))

\* C6 witness: two targets and a repeated control are accepted
C6_Witness ==
    /\ V_Returned
    /\ v_out.ok
    /\ v_in.expected_targets = 2
    /\ Len(v_in.control_qubits) = 2
    /\ v_in.control_qubits[1] = v_in.control_qubits[2]

\* C7: when exactly one rule is violated the error is the one listed for
\* that rule: InvalidNumberOfQubits(targets.len()) for the count,
\* InvalidQubitIndex(index, num_qubits) for an out-of-range target or
\* control, OverlappingControlAndTargetQubits(c, c) for a control that is a
\* target, InvalidQubitIndex(repeated target, num_qubits) for a repeat.
C7_SingleViolationErrorKind ==
    V_Returned =>
        /\ (~V_CountOk /\ V_RangeOk /\ V_NoOverlap /\ V_NoRepeat) =>
               v_out = Err(InvalidNumberOfQubits(Len(v_in.target_qubits)))
        /\ (V_CountOk /\ ~V_RangeOk /\ V_NoOverlap /\ V_NoRepeat) =>
               /\ ~v_out.ok
               /\ v_out.err.kind = "InvalidQubitIndex"
               /\ v_out.err.b = v_in.num_qubits
               /\ v_out.err.a >= v_in.num_qubits
               /\ v_out.err.a \in Range(v_in.target_qubits) \cup Range(v_in.control_qubits)
        /\ (V_CountOk /\ V_RangeOk /\ ~V_NoOverlap /\ V_NoRepeat) =>
               /\ ~v_out.ok
               /\ v_out.err.kind = "OverlappingControlAndTargetQubits"
               /\ v_out.err.a = v_out.err.b
               /\ v_out.err.a \in Range(v_in.control_qubits) \cap Range(v_in.target_qubits)
        /\ (V_CountOk /\ V_RangeOk /\ V_NoOverlap /\ ~V_NoRepeat) =>
               /\ ~v_out.ok
               /\ v_out.err.kind = "InvalidQubitIndex"
               /\ v_out.err.b = v_in.num_qubits
               /\ v_out.err.a \in V_RepeatedTargets

\* C7 witness: the only violation is a repeated target, reported by the
\* HashSet branch of the duplicate check
C7_Witness ==
    /\ V_Returned
    /\ V_CountOk /\ V_RangeOk /\ V_NoOverlap /\ ~V_NoRepeat
    /\ v_in.num_qubits >= PARALLEL_THRESHOLD_NUM_QUBITS
    /\ Len(v_in.control_qubits) > 0
    /\ ~v_out.ok

----------------------------------------------------------------------------
(* SpecApply: Operator::apply as a pure function.  Init draws the operator, *)
(* the state and the target and control lists; Apply calls the operator.    *)
(* Qubit indices range over 0 .. MaxQubits - 1, which is out of range for   *)
(* the smaller states; the lists are as long as the longest list an         *)
(* operator accepts (two targets for SWAP, two controls for Toffoli).       *)

\* [[1/sqrt2, 1/sqrt2], [i/sqrt2, -i/sqrt2]]: unitary, not symmetric
SampleMatrix ==
    <<<<sqrt_2_inv, sqrt_2_inv>>,
      <<CMul(i_complex, sqrt_2_inv), CNeg(CMul(i_complex, sqrt_2_inv))>>>>

Operators ==
    {Hadamard, Pauli("X"), Pauli("Y"), Pauli("Z"), CNOT, SWAP, Toffoli, Identity,
     PhaseS, PhaseT, PhaseSdag, PhaseTdag, PhaseShift_new(3),
     RotateX_new(1), RotateY_new(1), RotateZ_new(1), Unitary2_of(SampleMatrix)}

OpStates ==
    UNION {{BasisState(n, k) : k \in 0 .. Dim(n) - 1} \cup {PhaseRampState(n)} :
           n \in 0 .. MaxQubits}

OpIndices == 0 .. MaxQubits - 1

Op_Inputs ==
    [op : Operators,
     state : OpStates,
     target_qubits : SeqsUpTo(OpIndices, SWAP_TARGETS),
     control_qubits : SeqsUpTo(OpIndices, TOFFOLI_CONTROLS)]

InitApply ==
    /\ GPU_CONTEXT = Idle /\ threads = Idle
    /\ op_in \in Op_Inputs
    /\ op_out = Pending
    /\ circuit = Idle /\ builder = Idle /\ call = Idle
    /\ psi = Idle /\ exec_out = Idle /\ trace_out = Idle
    /\ op_again = Idle /\ steps = 0
    /\ v_in = Idle /\ v_out = Idle

Apply ==
    /\ op_in # Idle
    /\ op_out = Pending
    /\ op_out' = Operator_apply(op_in.op, op_in.state, op_in.target_qubits,
                                op_in.control_qubits)
    /\ UNCHANGED <<GPU_CONTEXT, threads, circuit, builder, call, psi, exec_out, trace_out, v_in, v_out, op_again, steps, op_in>>

NextApply == Apply

SpecApply == InitApply /\ [][NextApply]_vars

Op_Returned == op_in # Idle /\ op_out # Pending
Op_Succeeded == Op_Returned /\ op_out.ok

----------------------------------------------------------------------------
(* The gates as the specification defines them (section 4.3), amplitude by  *)
(* amplitude, in terms of the input amplitudes alone: the reference the     *)
(* kernels are compared with                                                *)

\* the index of the pair of i with bit t = 0, and the one with bit t = 1
LowIndex(i, t) == IF Bit(i, t) = 1 THEN i - Pow2(t) ELSE i
HighIndex(i, t) == IF Bit(i, t) = 1 THEN i ELSE i + Pow2(t)

\* (new[lo], new[hi]) = M * (old[lo], old[hi]), read at index i
MatrixAmp(M, old, t, i) ==
    LET lo == old[LowIndex(i, t)]
        hi == old[HighIndex(i, t)]
        row == IF Bit(i, t) = 0 THEN M[1] ELSE M[2]
    IN CAdd(CMul(row[1], lo), CMul(row[2], hi))

\* diag(d0, d1) read at index i
DiagonalAmp(d0, d1, old, t, i) ==
    IF Bit(i, t) = 0 THEN CMul(d0, old[i]) ELSE CMul(d1, old[i])

ExpI(k) == Complex_new(CosPi4(k), SinPi4(k))

ReferenceMatrix(op) ==
    CASE op.name = "Hadamard" ->
             <<<<sqrt_2_inv, sqrt_2_inv>>, <<sqrt_2_inv, CNeg(sqrt_2_inv)>>>>
      [] op.name \in {"CNOT", "Toffoli"} -> <<<<CZero, COne>>, <<COne, CZero>>>>
      [] op.name = "Pauli" /\ op.pauli = "X" -> <<<<CZero, COne>>, <<COne, CZero>>>>
      [] op.name = "Pauli" /\ op.pauli = "Y" ->
             <<<<CZero, CNeg(i_complex)>>, <<i_complex, CZero>>>>
      [] op.name = "RotateX" ->
             <<<<CosPi4(op.angle), CNeg(CMul(i_complex, SinPi4(op.angle)))>>,
               <<CNeg(CMul(i_complex, SinPi4(op.angle))), CosPi4(op.angle)>>>>
      [] op.name = "RotateY" ->
             <<<<CosPi4(op.angle), CNeg(SinPi4(op.angle))>>,
               <<SinPi4(op.angle), CosPi4(op.angle)>>>>
      [] op.name = "Unitary2" -> op.matrix

\* the amplitude at index i of the gate applied with all controls satisfied
ReferenceAmp(op, old, targets, i) ==
    CASE op.name = "Identity" -> old[i]
      [] op.name = "Pauli" /\ op.pauli = "Z" ->
             DiagonalAmp(COne, CNeg(COne), old, targets[1], i)
      [] op.name = "PhaseS" -> DiagonalAmp(COne, i_complex, old, targets[1], i)
      [] op.name = "PhaseSdag" ->
             DiagonalAmp(COne, CNeg(i_complex), old, targets[1], i)
      [] op.name = "PhaseT" -> DiagonalAmp(COne, ExpI(1), old, targets[1], i)
      [] op.name = "PhaseTdag" -> DiagonalAmp(COne, ExpI(-1), old, targets[1], i)
      [] op.name = "PhaseShift" ->
             DiagonalAmp(COne, ExpI(op.angle), old, targets[1], i)
      [] op.name = "RotateZ" ->
             DiagonalAmp(ExpI(0 - op.angle), ExpI(op.angle), old, targets[1], i)
      [] op.name = "SWAP" ->
             IF Bit(i, targets[1]) # Bit(i, targets[2])
             THEN old[FlipBit(FlipBit(i, targets[1]), targets[2])]
             ELSE old[i]
      [] OTHER -> MatrixAmp(ReferenceMatrix(op), old, targets[1], i)

\* some control bit of index i is 0
Blocked(i, controls) == \E c \in Range(controls) : Bit(i, c) = 0

\* the number of targets the operator's apply hands to the validator
TargetCount(op) == IF op.name = "SWAP" THEN 2 ELSE 1

\* the number of controls the operator's apply insists on (0: any number)
RequiredControls(op) ==
    CASE op.name = "CNOT" -> 1
      [] op.name = "Toffoli" -> 2
      [] OTHER -> 0

----------------------------------------------------------------------------
(* Claims about Operator::apply, under SpecApply *)

C9_ControlSemantics ==
    Op_Succeeded =>
        \A i \in DOMAIN op_in.state.state_vector :
            IF Blocked(i, op_in.control_qubits)
            THEN op_out.val.state_vector[i] = op_in.state.state_vector[i]
            ELSE op_out.val.state_vector[i] =
                     ReferenceAmp(op_in.op, op_in.state.state_vector,
                                  op_in.target_qubits, i)

\* C9 witness: a doubly controlled gate returned a basis state, one of whose
\* control bits is 0, unchanged, and the gate is not the identity on it
C9_Witness ==
    /\ Op_Succeeded
    /\ Len(op_in.control_qubits) = 2
    /\ op_in.control_qubits[1] # op_in.control_qubits[2]
    /\ \E k \in DOMAIN op_in.state.state_vector :
          /\ op_in.state = BasisState(op_in.state.num_qubits, k)
          /\ Bit(k, op_in.control_qubits[1]) = 1
          /\ Bit(k, op_in.control_qubits[2]) = 0
          /\ ReferenceAmp(op_in.op, op_in.state.state_vector, op_in.target_qubits, k)
                 # op_in.state.state_vector[k]
    /\ op_out.val = op_in.state

\* the state vector a successful apply must return, as a function of the
\* input state alone
ExpectedVector(op, state, targets, controls) ==
    [i \in 0 .. Pow2(state.num_qubits) - 1 |->
        IF Blocked(i, controls) THEN state.state_vector[i]
        ELSE ReferenceAmp(op, state.state_vector, targets, i)]

\* C10: apply leaves its input state as it was; a successful apply returns
\* a state of the same num_qubits whose vector has 2^num_qubits amplitudes,
\* each of them a function of the input amplitudes alone.
C10_FreshStateSameShape ==
    /\ [](Op_Succeeded =>
            /\ op_out.val.num_qubits = op_in.state.num_qubits
            /\ DOMAIN op_out.val.state_vector = 0 .. Pow2(op_in.state.num_qubits) - 1
            /\ DOMAIN op_out.val.state_vector = DOMAIN op_in.state.state_vector
            /\ op_out.val.state_vector =
                   ExpectedVector(op_in.op, op_in.state, op_in.target_qubits,
                                  op_in.control_qubits))
    /\ [][op_in'.state = op_in.state]_vars

\* C10 witness: a successful apply on a three-qubit superposition returned a
\* different state
C10_Witness ==
    /\ Op_Succeeded
    /\ op_in.state = PhaseRampState(3)
    /\ op_out.val # op_in.state

----------------------------------------------------------------------------
(* Gate: the variant Gate::Operator(operator, targets, controls), as built  *)
(* at circuit.rs:826-830.  components/gate.rs is not part of the source     *)
(* tree; apply is modelled from the specification (a Gate pairs an Operator *)
(* with its target and control lists; its apply is the operator's apply on  *)
(* them).                                                                   *)

Gate_Operator(operator, target_qubits, control_qubits) ==
    [operator |-> operator, target_qubits |-> target_qubits,
     control_qubits |-> control_qubits]

\* gate.get_target_qubits()
Gate_get_target_qubits(gate) == gate.target_qubits

\* gate.get_control_qubits(), Some(..) for every Gate::Operator
Gate_get_control_qubits(gate) == gate.control_qubits

\* gate.apply(&state)
Gate_apply(gate, state) ==
    Operator_apply(gate.operator, state, gate.target_qubits, gate.control_qubits)

----------------------------------------------------------------------------
(* Circuit, circuit.rs:16-182 *)

Circuit(gates, num_qubits) == [gates |-> gates, num_qubits |-> num_qubits]

\* the first index of qubits, from position i on, that is >= circuit_num_qubits
RECURSIVE first_out_of_range(_, _, _)
first_out_of_range(qubits, circuit_num_qubits, i) ==
    IF i > Len(qubits) THEN Ok(Unit)
    ELSE IF qubits[i] >= circuit_num_qubits
         THEN Err(InvalidQubitIndex(qubits[i], circuit_num_qubits))
         ELSE first_out_of_range(qubits, circuit_num_qubits, i + 1)

\* Circuit::_validate_gate_qubits
Circuit_validate_gate_qubits(gate, circuit_num_qubits) ==
    LET t == first_out_of_range(Gate_get_target_qubits(gate), circuit_num_qubits, 1)
    IN IF ~t.ok THEN t
       ELSE first_out_of_range(Gate_get_control_qubits(gate), circuit_num_qubits, 1)

Circuit_new(num_qubits) == Circuit(<<>>, num_qubits)

\* for gate in &gates { Self::_validate_gate_qubits(gate, num_qubits)?; }
RECURSIVE validate_all_gates(_, _, _)
validate_all_gates(gates, num_qubits, k) ==
    IF k > Len(gates) THEN Ok(Unit)
    ELSE LET r == Circuit_validate_gate_qubits(gates[k], num_qubits)
         IN IF ~r.ok THEN r ELSE validate_all_gates(gates, num_qubits, k + 1)

Circuit_with_gates(gates, num_qubits) ==
    LET r == validate_all_gates(gates, num_qubits, 1)
    IN IF ~r.ok THEN r ELSE Ok(Circuit(gates, num_qubits))

\* an add_gate that pushes the gate before it validates it
Circuit_add_gate_push_first(self, gate) ==
    [result |-> Circuit_validate_gate_qubits(gate, self.num_qubits),
     self |-> Circuit(Append(self.gates, gate), self.num_qubits)]

\* add_gate(&mut self, gate): the value returned and self after the call
Circuit_add_gate(self, gate) ==
    LET r == Circuit_validate_gate_qubits(gate, self.num_qubits)
    IN IF ~r.ok THEN [result |-> r, self |-> self]
       ELSE [result |-> Ok(Unit),
             self |-> Circuit(Append(self.gates, gate), self.num_qubits)]

\* add_gates(&mut self, gates): self after the call
Circuit_add_gates(self, gates) == Circuit(self.gates \o gates, self.num_qubits)

\* execute with every gate applied to initial_state, the state never threaded
Circuit_execute_unthreaded(self, initial_state) ==
    IF initial_state.num_qubits # self.num_qubits
    THEN [result |-> Err(InvalidNumberOfQubits(initial_state.num_qubits)),
          applied |-> <<>>]
    ELSE ForLoop(Len(self.gates),
                 [result |-> Ok(initial_state), applied |-> <<>>],
                 LAMBDA k, acc:
                     IF ~acc.result.ok THEN acc
                     ELSE [result |-> Gate_apply(self.gates[k + 1], initial_state),
                           applied |-> Append(acc.applied, k)])

\* execute that steps over a failing gate instead of returning its error
Circuit_execute_skip_failed(self, initial_state) ==
    IF initial_state.num_qubits # self.num_qubits
    THEN [result |-> Err(InvalidNumberOfQubits(initial_state.num_qubits)),
          applied |-> <<>>]
    ELSE ForLoop(Len(self.gates),
                 [result |-> Ok(initial_state), applied |-> <<>>],
                 LAMBDA k, acc:
                     LET r == Gate_apply(self.gates[k + 1], acc.result.val)
                     IN [result |-> IF r.ok THEN r ELSE acc.result,
                         applied |-> Append(acc.applied, k)])

\* execute(&self, initial_state).  The record returned carries, next to the
\* Result, the positions (0-based) of the gates whose apply was called, in
\* call order.
Circuit_execute(self, initial_state) ==
    IF initial_state.num_qubits # self.num_qubits
    THEN [result |-> Err(InvalidNumberOfQubits(initial_state.num_qubits)),
          applied |-> <<>>]
    ELSE ForLoop(Len(self.gates),
                 [result |-> Ok(initial_state), applied |-> <<>>],
                 LAMBDA k, acc:
                     IF ~acc.result.ok THEN acc
                     ELSE [result |-> Gate_apply(self.gates[k + 1], acc.result.val),
                           applied |-> Append(acc.applied, k)])

\* a trace loop whose list of states starts as states0
trace_loop_from(self, initial_state, states0) ==
    LET final ==
            ForLoop(Len(self.gates),
                [failed |-> FALSE, current_state |-> initial_state,
                 states |-> states0, applied |-> <<>>],
                LAMBDA k, acc:
                    IF acc.failed THEN acc
                    ELSE LET r == Gate_apply(self.gates[k + 1], acc.current_state)
                         IN IF ~r.ok
                            THEN [failed |-> TRUE, error |-> r,
                                  applied |-> Append(acc.applied, k)]
                            ELSE [failed |-> FALSE, current_state |-> r.val,
                                  states |-> Append(acc.states, r.val),
                                  applied |-> Append(acc.applied, k)])
    IN IF final.failed
       THEN [result |-> final.error, applied |-> final.applied]
       ELSE [result |-> Ok(final.states), applied |-> final.applied]

\* trace_execution without the qubit-count comparison
Circuit_trace_execution_unchecked(self, initial_state) ==
    trace_loop_from(self, initial_state, <<initial_state>>)

\* trace_execution whose list starts empty, the initial state not recorded
Circuit_trace_execution_no_initial(self, initial_state) ==
    IF initial_state.num_qubits # self.num_qubits
    THEN [result |-> Err(InvalidNumberOfQubits(initial_state.num_qubits)),
          applied |-> <<>>]
    ELSE trace_loop_from(self, initial_state, <<>>)

\* trace_execution(&self, initial_state), with the same record of calls;
\* result is Ok(states) or the error
Circuit_trace_execution(self, initial_state) ==
    IF initial_state.num_qubits # self.num_qubits
    THEN [result |-> Err(InvalidNumberOfQubits(initial_state.num_qubits)),
          applied |-> <<>>]
    ELSE LET final ==
                 ForLoop(Len(self.gates),
                     [failed |-> FALSE, current_state |-> initial_state,
                      states |-> <<initial_state>>, applied |-> <<>>],
                     LAMBDA k, acc:
                         IF acc.failed THEN acc
                         ELSE LET r == Gate_apply(self.gates[k + 1], acc.current_state)
                              IN IF ~r.ok
                                 THEN [failed |-> TRUE, error |-> r,
                                       applied |-> Append(acc.applied, k)]
                                 ELSE [failed |-> FALSE, current_state |-> r.val,
                                       states |-> Append(acc.states, r.val),
                                       applied |-> Append(acc.applied, k)])
         IN IF final.failed
            THEN [result |-> final.error, applied |-> final.applied]
            ELSE [result |-> Ok(final.states), applied |-> final.applied]

----------------------------------------------------------------------------
(* CircuitBuilder, circuit.rs:191-272 *)

CircuitBuilder(gates, num_qubits) == [gates |-> gates, num_qubits |-> num_qubits]

CircuitBuilder_new(num_qubits) == CircuitBuilder(<<>>, num_qubits)

CircuitBuilder_add_gate(self, gate) ==
    CircuitBuilder(Append(self.gates, gate), self.num_qubits)

CircuitBuilder_add_gates(self, gates) ==
    CircuitBuilder(self.gates \o gates, self.num_qubits)

\* a build(&mut self) that takes the gates as build_final does
CircuitBuilder_build_taking(self) ==
    [result |-> Circuit_with_gates(self.gates, self.num_qubits),
     self |-> CircuitBuilder(<<>>, self.num_qubits)]

\* build(&mut self): the value returned and self after the call
CircuitBuilder_build(self) ==
    LET gates_cloned == self.gates
    IN [result |-> Circuit_with_gates(gates_cloned, self.num_qubits), self |-> self]

\* build_final(&mut self): the value returned and self after the call
CircuitBuilder_build_final(self) ==
    LET gates == self.gates
    IN [result |-> Circuit(gates, self.num_qubits),
        self |-> CircuitBuilder(<<>>, self.num_qubits)]

----------------------------------------------------------------------------
(* Spec: a Circuit and a CircuitBuilder under construction.  Every action   *)
(* is one call of the public interface; call records the call and what it   *)
(* returned.                                                                *)

\* largest num_qubits of a Circuit or CircuitBuilder
MaxCircuitQubits == 2

CircuitQubits == 1 .. MaxCircuitQubits

\* the gates handed to the construction calls: one in range on every circuit,
\* one whose target and one whose control is out of range on one qubit
Gates ==
    { Gate_Operator(Hadamard, <<0>>, <<>>),
      Gate_Operator(Pauli("X"), <<1>>, <<0>>),
      Gate_Operator(Pauli("Z"), <<0>>, <<1>>) }

GateLists == SeqsUpTo(Gates, MaxGates)

Called(fn, result) == [fn |-> fn, result |-> result]

Init ==
    /\ GPU_CONTEXT = Idle /\ threads = Idle
    /\ \E n \in CircuitQubits : circuit = Circuit_new(n)
    /\ \E n \in CircuitQubits : builder = CircuitBuilder_new(n)
    /\ call = Called("new", Ok(Unit))
    /\ psi = Idle /\ exec_out = Idle /\ trace_out = Idle
    /\ op_again = Idle /\ steps = 0
    /\ v_in = Idle /\ v_out = Idle /\ op_in = Idle /\ op_out = Idle

Rest == <<GPU_CONTEXT, threads, psi, exec_out, trace_out, v_in, v_out, op_again, steps, op_in, op_out>>

\* let circuit = Circuit::new(n)
CircuitNew ==
    \E n \in CircuitQubits :
        /\ circuit' = Circuit_new(n)
        /\ call' = Called("Circuit::new", Ok(Unit))
        /\ UNCHANGED <<builder, Rest>>

\* let circuit = Circuit::with_gates(gates, n)?
CircuitWithGates ==
    \E gates \in GateLists, n \in CircuitQubits :
        LET r == Circuit_with_gates(gates, n)
        IN /\ circuit' = IF r.ok THEN r.val ELSE circuit
           /\ call' = Called("Circuit::with_gates", r)
           /\ UNCHANGED <<builder, Rest>>

\* circuit.add_gate(gate)
CircuitAddGate ==
    \E gate \in Gates :
        /\ Len(circuit.gates) < MaxGates
        /\ LET r == Circuit_add_gate(circuit, gate)
           IN /\ circuit' = r.self
              /\ call' = Called("Circuit::add_gate", r.result)
        /\ UNCHANGED <<builder, Rest>>

\* circuit.add_gates(gates)
CircuitAddGates ==
    \E gates \in GateLists :
        /\ Len(circuit.gates) + Len(gates) <= MaxGates
        /\ circuit' = Circuit_add_gates(circuit, gates)
        /\ call' = Called("Circuit::add_gates", Ok(Unit))
        /\ UNCHANGED <<builder, Rest>>

\* let builder = CircuitBuilder::new(n)
BuilderNew ==
    \E n \in CircuitQubits :
        /\ builder' = CircuitBuilder_new(n)
        /\ call' = Called("CircuitBuilder::new", Ok(Unit))
        /\ UNCHANGED <<circuit, Rest>>

\* builder.add_gate(gate)
BuilderAddGate ==
    \E gate \in Gates :
        /\ Len(builder.gates) < MaxGates
        /\ builder' = CircuitBuilder_add_gate(builder, gate)
        /\ call' = Called("CircuitBuilder::add_gate", Ok(Unit))
        /\ UNCHANGED <<circuit, Rest>>

\* builder.add_gates(gates)
BuilderAddGates ==
    \E gates \in GateLists :
        /\ Len(builder.gates) + Len(gates) <= MaxGates
        /\ builder' = CircuitBuilder_add_gates(builder, gates)
        /\ call' = Called("CircuitBuilder::add_gates", Ok(Unit))
        /\ UNCHANGED <<circuit, Rest>>

\* let circuit = builder.build()?
BuilderBuild ==
    LET r == CircuitBuilder_build(builder)
    IN /\ builder' = r.self
       /\ circuit' = IF r.result.ok THEN r.result.val ELSE circuit
       /\ call' = Called("CircuitBuilder::build", r.result)
       /\ UNCHANGED Rest

\* let circuit = builder.build_final()
BuilderBuildFinal ==
    LET r == CircuitBuilder_build_final(builder)
    IN /\ builder' = r.self
       /\ circuit' = r.result
       /\ call' = Called("CircuitBuilder::build_final", Ok(Unit))
       /\ UNCHANGED Rest

Next ==
    \/ CircuitNew
    \/ CircuitWithGates
    \/ CircuitAddGate
    \/ CircuitAddGates
    \/ BuilderNew
    \/ BuilderAddGate
    \/ BuilderAddGates
    \/ BuilderBuild
    \/ BuilderBuildFinal

Spec == Init /\ [][Next]_vars

\* gate refers only to qubits of a circuit of num_qubits qubits
GateInRange(gate, num_qubits) ==
    /\ \A k \in 1 .. Len(gate.target_qubits) : gate.target_qubits[k] < num_qubits
    /\ \A k \in 1 .. Len(gate.control_qubits) : gate.control_qubits[k] < num_qubits

\* C1: every gate stored in a Circuit obtained through new, with_gates,
\* add_gate, add_gates, build or build_final has all of its target and
\* control indices below the circuit's num_qubits.  add_gates and build_final
\* store gates without calling _validate_gate_qubits, so this is violated.
C1_GatesIndexBelowNumQubits ==
    \A k \in 1 .. Len(circuit.gates) : GateInRange(circuit.gates[k], circuit.num_qubits)

----------------------------------------------------------------------------
(* SpecExecute: execute and trace_execution as functions of the circuit and *)
(* of the state handed in.  Init draws a circuit and a state; every gate    *)
(* list is one a Circuit can hold (Circuit::new followed by add_gates).     *)

\* the gates of the executed circuits: two that do not commute, one that
\* needs a second qubit, one whose control is its target, one with too few
\* targets
ExecGates ==
    { Gate_Operator(Hadamard, <<0>>, <<>>),
      Gate_Operator(PhaseT, <<0>>, <<>>),
      Gate_Operator(Pauli("X"), <<1>>, <<0>>),
      Gate_Operator(Pauli("Z"), <<0>>, <<0>>),
      Gate_Operator(SWAP, <<0>>, <<>>) }

ExecStates ==
    UNION { {BasisState(n, 0), BasisState(n, Dim(n) - 1), PhaseRampState(n)} :
                n \in CircuitQubits }

InitExecute ==
    /\ GPU_CONTEXT = Idle /\ threads = Idle
    /\ \E gates \in SeqsUpTo(ExecGates, MaxExecGates), n \in CircuitQubits :
           circuit = Circuit_add_gates(Circuit_new(n), gates)
    /\ psi \in ExecStates
    /\ exec_out = Pending /\ trace_out = Pending
    /\ op_again = Idle /\ steps = 0
    /\ builder = Idle /\ call = Idle
    /\ v_in = Idle /\ v_out = Idle /\ op_in = Idle /\ op_out = Idle

\* circuit.execute(&psi)
Execute ==
    /\ exec_out' = Circuit_execute(circuit, psi)
    /\ UNCHANGED <<GPU_CONTEXT, threads, circuit, builder, call, psi, trace_out, v_in, v_out, op_again, steps, op_in, op_out>>

\* circuit.trace_execution(&psi)
TraceExecution ==
    /\ trace_out' = Circuit_trace_execution(circuit, psi)
    /\ UNCHANGED <<GPU_CONTEXT, threads, circuit, builder, call, psi, exec_out, v_in, v_out, op_again, steps, op_in, op_out>>

NextExecute == Execute \/ TraceExecution

SpecExecute == InitExecute /\ [][NextExecute]_vars

ExecReturned == exec_out # Pending

TraceReturned == trace_out # Pending

QubitsMatch == psi.num_qubits = circuit.num_qubits

\* g_n.apply(... g_2.apply(g_1.apply(s_0)) ...) for the first n gates, an
\* error of an inner application being the value of the whole
RECURSIVE Nested(_, _, _)
Nested(gates, n, s_0) ==
    IF n = 0 THEN Ok(s_0)
    ELSE LET inner == Nested(gates, n - 1, s_0)
         IN IF inner.ok THEN Gate_apply(gates[n], inner.val) ELSE inner

Reverse(s) == [k \in 1 .. Len(s) |-> s[Len(s) + 1 - k]]

\* the positions 0 .. n-1 in order
Positions(n) == [k \in 1 .. n |-> k - 1]

\* C2: on a state of the circuit's qubit count, execute calls apply on the
\* gates in insertion order; when every application succeeds it returns
\* g_n.apply(...g_1.apply(s_0)...), and an empty circuit returns s_0.
C2_ExecuteAppliesInOrder ==
    (ExecReturned /\ QubitsMatch) =>
        LET n == Len(circuit.gates)
            all == Nested(circuit.gates, n, psi)
        IN /\ all.ok => /\ exec_out.result = all
                        /\ exec_out.applied = Positions(n)
           /\ n = 0 => exec_out.result = Ok(psi)

\* execute succeeded on two or more gates whose order matters
C2_Witness ==
    /\ ExecReturned /\ QubitsMatch
    /\ Len(circuit.gates) >= 2
    /\ exec_out.result.ok
    /\ Nested(Reverse(circuit.gates), Len(circuit.gates), psi) # exec_out.result

\* C3: when the state's qubit count differs from the circuit's, execute and
\* trace_execution return Err(InvalidNumberOfQubits(n)), n the state's qubit
\* count, and no gate is applied.
C3_QubitCountMismatch ==
    ~QubitsMatch =>
        /\ ExecReturned =>
               /\ exec_out.result = Err(InvalidNumberOfQubits(psi.num_qubits))
               /\ exec_out.applied = <<>>
        /\ TraceReturned =>
               /\ trace_out.result = Err(InvalidNumberOfQubits(psi.num_qubits))
               /\ trace_out.applied = <<>>

\* both calls returned on a mismatching state, the circuit holding gates
C3_Witness ==
    /\ ~QubitsMatch /\ ExecReturned /\ TraceReturned
    /\ circuit.gates # <<>>

FirstFailing(gates, s_0) ==
    CHOOSE k \in 1 .. Len(gates) :
        /\ ~Nested(gates, k, s_0).ok
        /\ Nested(gates, k - 1, s_0).ok

SomeGateFails == QubitsMatch /\ ~Nested(circuit.gates, Len(circuit.gates), psi).ok

\* what C5 asks of one call's outcome
StoppedAtFirstFailure(out) ==
    LET k == FirstFailing(circuit.gates, psi)
        before == Nested(circuit.gates, k - 1, psi).val
    IN /\ out.result = Gate_apply(circuit.gates[k], before)
       /\ ~out.result.ok
       /\ DOMAIN out.result = {"ok", "err"}
       /\ out.applied = Positions(k)

\* C5: when a gate's application fails, execute and trace_execution stop at
\* the first failing gate: its error is the result, no later gate is
\* applied, no state or partial list is returned, and the caller's initial
\* state and the circuit's gate list are unchanged.
C5_StopAtFirstFailure ==
    /\ [](SomeGateFails =>
              /\ ExecReturned => StoppedAtFirstFailure(exec_out)
              /\ TraceReturned => StoppedAtFirstFailure(trace_out))
    /\ [][psi' = psi /\ circuit' = circuit]_vars

\* both calls returned after a failure with gates before and after it
C5_Witness ==
    /\ SomeGateFails /\ ExecReturned /\ TraceReturned
    /\ FirstFailing(circuit.gates, psi) > 1
    /\ FirstFailing(circuit.gates, psi) < Len(circuit.gates)

----------------------------------------------------------------------------
(* Claims about CNOT and Toffoli, under SpecApply *)

\* what validate_qubits answers on the arguments of the call, for one target
Op_Validation ==
    validate_qubits(op_in.state, op_in.target_qubits, op_in.control_qubits, SINGLE_TARGET)

ToffoliOnBasis(b) ==
    /\ op_in.op = Toffoli
    /\ op_in.state = BasisState(3, b)
    /\ Len(op_in.target_qubits) = 1 /\ Len(op_in.control_qubits) = 2
    /\ {op_in.target_qubits[1], op_in.control_qubits[1],
        op_in.control_qubits[2]} = {0, 1, 2}

\* C13: on each 3-qubit basis state |b> and each assignment of three distinct
\* qubits to target and controls, Toffoli returns |b with the target bit
\* flipped> when both control bits of b are 1 and |b> otherwise, which is
\* also what Pauli X returns with the two controls.
C13_ToffoliTruthTable ==
    \A b \in 0 .. 7 :
        (Op_Returned /\ ToffoliOnBasis(b)) =>
            LET target == op_in.target_qubits[1]
                c1 == op_in.control_qubits[1]
                c2 == op_in.control_qubits[2]
                out == IF Bit(b, c1) = 1 /\ Bit(b, c2) = 1 THEN FlipBit(b, target) ELSE b
            IN /\ op_out = Ok(BasisState(3, out))
               /\ op_out = Pauli_apply("X", op_in.state, op_in.target_qubits,
                                       op_in.control_qubits)

\* Toffoli flipped the target of a basis state whose control bits are both 1
C13_Witness ==
    \E b \in 0 .. 7 :
        /\ Op_Succeeded /\ ToffoliOnBasis(b)
        /\ op_out.val # op_in.state

----------------------------------------------------------------------------
(* SpecTwice: one operator applied, and a second one applied to the state   *)
(* the first returned, with the same targets and controls.  Init draws the  *)
(* two operators, the state and the index lists.                            *)

\* largest angle argument of PhaseShift::new (in pi/4) and of
\* RotateX/Y/Z::new (in pi/2)
MaxAngle == 3

Angles == 1 .. MaxAngle

\* an operator followed by itself
SelfPairs ==
    {<<op, op>> : op \in {Pauli("X"), Pauli("Y"), Pauli("Z"), Hadamard, SWAP, CNOT,
                          PhaseS, PhaseT}}

\* an operator followed by its adjoint or by the same operator of opposite angle
AdjointPairs ==
    {<<PhaseS, PhaseSdag>>, <<PhaseT, PhaseTdag>>}
        \cup {<<PhaseShift_new(a), PhaseShift_new(0 - a)>> : a \in Angles}
        \cup {<<RotateX_new(a), RotateX_new(0 - a)>> : a \in Angles}
        \cup {<<RotateY_new(a), RotateY_new(0 - a)>> : a \in Angles}
        \cup {<<RotateZ_new(a), RotateZ_new(0 - a)>> : a \in Angles}

Twice_Inputs ==
    [ops : SelfPairs \cup AdjointPairs,
     state : OpStates,
     target_qubits : SeqsUpTo(OpIndices, SWAP_TARGETS),
     control_qubits : SeqsUpTo(OpIndices, TOFFOLI_CONTROLS)]

InitTwice ==
    /\ GPU_CONTEXT = Idle /\ threads = Idle
    /\ op_in \in Twice_Inputs
    /\ op_out = Pending /\ op_again = Pending
    /\ circuit = Idle /\ builder = Idle /\ call = Idle
    /\ psi = Idle /\ exec_out = Idle /\ trace_out = Idle
    /\ v_in = Idle /\ v_out = Idle /\ steps = 0

\* let once = ops[0].apply(&state, targets, controls)
ApplyOnce ==
    /\ op_out = Pending
    /\ op_out' = Operator_apply(op_in.ops[1], op_in.state, op_in.target_qubits,
                                op_in.control_qubits)
    /\ UNCHANGED <<GPU_CONTEXT, threads, circuit, builder, call, psi, exec_out, trace_out, v_in, v_out,
                   op_again, steps, op_in>>

\* let again = ops[1].apply(&once?, targets, controls)
ApplyAgain ==
    /\ op_out # Pending /\ op_out.ok
    /\ op_again = Pending
    /\ op_again' = Operator_apply(op_in.ops[2], op_out.val, op_in.target_qubits,
                                  op_in.control_qubits)
    /\ UNCHANGED <<GPU_CONTEXT, threads, circuit, builder, call, psi, exec_out, trace_out, v_in, v_out,
                   steps, op_in, op_out>>

NextTwice == ApplyOnce \/ ApplyAgain

SpecTwice == InitTwice /\ [][NextTwice]_vars

AppliedTwice == op_in # Idle /\ op_out # Pending /\ op_again # Pending

Involutions ==
    {<<op, op>> : op \in {Pauli("X"), Pauli("Y"), Pauli("Z"), Hadamard, SWAP, CNOT}}

\* C14: X, Y, Z, H, SWAP or CNOT applied twice with the same valid targets
\* and controls returns a state equal to the original state.
C14_Involutive ==
    (AppliedTwice /\ op_in.ops \in Involutions) => op_again = Ok(op_in.state)

\* a controlled Hadamard changed the state and its second application
\* restored it
C14_Witness ==
    /\ AppliedTwice /\ op_in.ops = <<Hadamard, Hadamard>>
    /\ op_in.control_qubits # <<>>
    /\ op_out.val # op_in.state
    /\ op_again = Ok(op_in.state)

\* C15: PhaseS then PhaseSdag, PhaseT then PhaseTdag, PhaseShift(a) then
\* PhaseShift(-a), and RotateX/Y/Z(a) then the same rotation with -a, on the
\* same valid target and controls, return a state equal to the original.
C15_InversePairs ==
    (AppliedTwice /\ op_in.ops \in AdjointPairs) => op_again = Ok(op_in.state)

\* a controlled rotation about Y changed the state and the opposite rotation
\* restored it
C15_Witness ==
    /\ AppliedTwice
    /\ \E a \in Angles : op_in.ops = <<RotateY_new(a), RotateY_new(0 - a)>>
    /\ op_in.control_qubits # <<>>
    /\ op_out.val # op_in.state
    /\ op_again = Ok(op_in.state)

----------------------------------------------------------------------------
(* SpecSequence: operators applied one after another to the caller's state. *)
(* psi is the state the caller holds: the one returned by the last          *)
(* successful apply.                                                        *)

\* longest sequence of apply calls
MaxSteps == 3

\* the target and control lists of the calls
SeqIndexLists ==
    { <<<<0>>, <<>>>>, <<<<1>>, <<0>>>>, <<<<2>>, <<0, 1>>>>, <<<<0, 1>>, <<2>>>> }

SeqStates ==
    UNION { {BasisState(n, Dim(n) - 1), PhaseRampState(n)} : n \in 2 .. 3 }

InitSequence ==
    /\ GPU_CONTEXT = Idle /\ threads = Idle
    /\ psi \in SeqStates
    /\ steps = 0
    /\ circuit = Idle /\ builder = Idle /\ call = Idle
    /\ exec_out = Idle /\ trace_out = Idle
    /\ v_in = Idle /\ v_out = Idle /\ op_in = Idle /\ op_out = Idle
    /\ op_again = Idle

\* if let Ok(next) = op.apply(&psi, targets, controls) { psi = next }
ApplyNext ==
    /\ steps < MaxSteps
    /\ \E op \in Operators, lists \in SeqIndexLists :
           LET r == Operator_apply(op, psi, lists[1], lists[2])
           IN psi' = IF r.ok THEN r.val ELSE psi
    /\ steps' = steps + 1
    /\ UNCHANGED <<GPU_CONTEXT, threads, circuit, builder, call, exec_out, trace_out, v_in, v_out,
                   op_again, op_in, op_out>>

NextSequence == ApplyNext

SpecSequence == InitSequence /\ [][NextSequence]_vars

\* |x|^2 = x * conj(x)
AbsSquared(x) == CMul(x, CConj(x))

\* the sum of |a_i|^2 over the first n amplitudes
RECURSIVE SumAbsSquared(_, _)
SumAbsSquared(state_vector, n) ==
    IF n = 0 THEN CZero
    ELSE CAdd(SumAbsSquared(state_vector, n - 1), AbsSquared(state_vector[n - 1]))

Normalized(state) == SumAbsSquared(state.state_vector, Dim(state.num_qubits)) = COne

\* C16: from a normalized state, after any sequence of successfully applied
\* operators the squared magnitudes of the amplitudes still sum to 1.
C16_NormPreserved == Normalized(psi)

\* a state reached by two or more calls, none of the initial ones, with four
\* or more different amplitudes
C16_Witness ==
    /\ steps >= 2
    /\ psi \notin SeqStates
    /\ Cardinality({psi.state_vector[i] : i \in DOMAIN psi.state_vector}) >= 4

----------------------------------------------------------------------------
(* Claims about Identity, under SpecApply *)

\* some index of the call is not a qubit of the state
Op_IndexOutOfRange ==
    \E q \in Range(op_in.target_qubits) \cup Range(op_in.control_qubits) :
        q >= op_in.state.num_qubits

\* some control of the call is one of its targets
Op_ControlIsTarget ==
    Range(op_in.target_qubits) \cap Range(op_in.control_qubits) # {}

\* C17: Identity returns a state exactly equal to its input whenever the
\* validator accepts the target and control lists, and the validator's error
\* instead of a state otherwise: with a number of targets other than one, an
\* index out of range or a control equal to the target.
C17_IdentityCopiesAndValidates ==
    (Op_Returned /\ op_in.op = Identity) =>
        /\ op_out = IF Op_Validation.ok THEN Ok(op_in.state) ELSE Op_Validation
        /\ (Len(op_in.target_qubits) # 1 \/ Op_IndexOutOfRange \/ Op_ControlIsTarget) =>
               /\ ~op_out.ok
               /\ op_out.err.kind \in {"InvalidNumberOfQubits", "InvalidQubitIndex",
                                       "OverlappingControlAndTargetQubits"}

\* Identity was handed its in-range target as a control too and returned the
\* validator's error
C17_Witness ==
    /\ Op_Returned /\ op_in.op = Identity
    /\ Len(op_in.target_qubits) = 1 /\ ~Op_IndexOutOfRange /\ Op_ControlIsTarget
    /\ op_out = Err(OverlappingControlAndTargetQubits(op_in.target_qubits[1],
                                                      op_in.target_qubits[1]))

----------------------------------------------------------------------------
(* SpecDispatch: the backend an operator's apply selects, as a function of  *)
(* the operator, the state's qubit count and the build's gpu feature.       *)

\* largest qubit count of a dispatched state
MaxDispatchQubits == 16

Dispatch_Inputs ==
    [op : Operators, num_qubits : 0 .. MaxDispatchQubits, gpu : BOOLEAN]

InitDispatch ==
    /\ GPU_CONTEXT = Idle /\ threads = Idle
    /\ op_in \in Dispatch_Inputs
    /\ op_out = Pending
    /\ circuit = Idle /\ builder = Idle /\ call = Idle
    /\ psi = Idle /\ exec_out = Idle /\ trace_out = Idle
    /\ op_again = Idle /\ steps = 0
    /\ v_in = Idle /\ v_out = Idle

\* the branch op.apply takes after validation
SelectBackend ==
    /\ op_out = Pending
    /\ op_out' = [backend |-> Operator_backend(op_in.op, op_in.num_qubits, op_in.gpu)]
    /\ UNCHANGED <<GPU_CONTEXT, threads, circuit, builder, call, psi, exec_out, trace_out, v_in, v_out,
                   op_again, steps, op_in>>

NextDispatch == SelectBackend

SpecDispatch == InitDispatch /\ [][NextDispatch]_vars

SingleTargetKernels ==
    {"Hadamard", "Pauli", "PhaseS", "PhaseSdag", "PhaseT", "PhaseTdag", "PhaseShift",
     "RotateX", "RotateY", "RotateZ", "Unitary2"}

\* sequential below 10 qubits; from 10 on, the accelerator from 15 qubits on
\* when it is compiled in and parallel otherwise
ThreeTier(n, gpu) ==
    IF n < 10 THEN "sequential"
    ELSE IF n >= 15 /\ gpu THEN "gpu"
    ELSE "parallel"

\* C18 as stated: every single-target kernel, Unitary2 among them, selects
\* among the three backends.
C18_Original ==
    (op_out # Pending /\ op_in.op.name \in SingleTargetKernels) =>
        op_out.backend = ThreeTier(op_in.num_qubits, op_in.gpu)

\* C18: every single-target kernel but Unitary2 selects sequential below 10
\* qubits, the accelerator from 15 qubits on when it is compiled in, and
\* parallel otherwise; Unitary2 has no accelerator branch and selects
\* sequential below 10 qubits and parallel from 10 on, in every build.
C18_BackendSelection ==
    (op_out # Pending /\ op_in.op.name \in SingleTargetKernels) =>
        IF op_in.op.name = "Unitary2"
        THEN op_out.backend = ThreeTier(op_in.num_qubits, FALSE)
        ELSE op_out.backend = ThreeTier(op_in.num_qubits, op_in.gpu)

\* Unitary2 on 15 qubits or more, in a build with the accelerator, ran in
\* parallel
C18_Witness ==
    /\ op_out # Pending
    /\ op_in.op.name = "Unitary2" /\ op_in.num_qubits >= 15 /\ op_in.gpu
    /\ op_out.backend = "parallel"

----------------------------------------------------------------------------
(* SpecKernels: the sequential loop and the parallel loop of one kernel, run *)
(* on the same validated arguments.                                          *)

\* the operators that own a kernel: CNOT and Toffoli run Pauli X's, Identity
\* runs none
KernelOperators == Operators \ {CNOT, Toffoli, Identity}

\* the phase_factor each phase kernel defines in both of its CPU branches
phase_factor(op) ==
    CASE op.name = "PhaseS" -> Complex_new(CZero, COne)
      [] op.name = "PhaseT" -> Complex_new(sqrt_2_inv, sqrt_2_inv)
      [] op.name = "PhaseSdag" -> Complex_new(CZero, CNeg(COne))
      [] op.name = "PhaseTdag" -> Complex_new(sqrt_2_inv, CNeg(sqrt_2_inv))
      [] op.name = "PhaseShift" -> Complex_new(CosPi4(op.angle), SinPi4(op.angle))

\* the new_state_vec the else branch (the sequential loop) of op.apply builds
Operator_sequential(op, state, target_qubits, control_qubits) ==
    CASE op.name = "Hadamard" ->
             Hadamard_sequential(state, target_qubits[1], control_qubits)
      [] op.name = "Pauli" ->
             Pauli_sequential(op.pauli, state, target_qubits[1], control_qubits)
      [] op.name = "SWAP" ->
             SWAP_sequential(state, target_qubits[1], target_qubits[2], control_qubits)
      [] op.name \in {"PhaseS", "PhaseT", "PhaseSdag", "PhaseTdag", "PhaseShift"} ->
             Phase_sequential(state, target_qubits[1], control_qubits, phase_factor(op))
      [] op.name = "RotateX" ->
             RotateX_sequential(op, state, target_qubits[1], control_qubits)
      [] op.name = "RotateY" ->
             RotateY_sequential(op, state, target_qubits[1], control_qubits)
      [] op.name = "RotateZ" ->
             RotateZ_sequential(op, state, target_qubits[1], control_qubits)
      [] op.name = "Unitary2" ->
             Unitary2_sequential(op, state, target_qubits[1], control_qubits)

\* the new_state_vec the rayon branch (the parallel loop) of op.apply builds
Operator_parallel(op, state, target_qubits, control_qubits) ==
    CASE op.name = "Hadamard" ->
             Hadamard_parallel(state, target_qubits[1], control_qubits)
      [] op.name = "Pauli" ->
             Pauli_parallel(op.pauli, state, target_qubits[1], control_qubits)
      [] op.name = "SWAP" ->
             SWAP_parallel(state, target_qubits[1], target_qubits[2], control_qubits)
      [] op.name \in {"PhaseS", "PhaseT", "PhaseSdag", "PhaseTdag", "PhaseShift"} ->
             Phase_parallel(state, target_qubits[1], control_qubits, phase_factor(op))
      [] op.name = "RotateX" ->
             RotateX_parallel(op, state, target_qubits[1], control_qubits)
      [] op.name = "RotateY" ->
             RotateY_parallel(op, state, target_qubits[1], control_qubits)
      [] op.name = "RotateZ" ->
             RotateZ_parallel(op, state, target_qubits[1], control_qubits)
      [] op.name = "Unitary2" ->
             Unitary2_parallel(op, state, target_qubits[1], control_qubits)

\* the expected_targets op.apply hands to validate_qubits
expected_targets(op) == IF op.name = "SWAP" THEN SWAP_TARGETS ELSE SINGLE_TARGET

Kernel_Inputs ==
    [op : KernelOperators,
     state : OpStates,
     target_qubits : SeqsUpTo(OpIndices, SWAP_TARGETS),
     control_qubits : SeqsUpTo(OpIndices, TOFFOLI_CONTROLS)]

InitKernels ==
    /\ GPU_CONTEXT = Idle /\ threads = Idle
    /\ op_in \in Kernel_Inputs
    /\ op_out = Pending
    /\ circuit = Idle /\ builder = Idle /\ call = Idle
    /\ psi = Idle /\ exec_out = Idle /\ trace_out = Idle
    /\ op_again = Idle /\ steps = 0
    /\ v_in = Idle /\ v_out = Idle

\* both CPU branches of op.apply, entered after validate_qubits(..)? passed
RunKernels ==
    /\ op_out = Pending
    /\ validate_qubits(op_in.state, op_in.target_qubits, op_in.control_qubits,
                       expected_targets(op_in.op)).ok
    /\ op_out' = [sequential |-> Operator_sequential(op_in.op, op_in.state,
                                     op_in.target_qubits, op_in.control_qubits),
                  parallel |-> Operator_parallel(op_in.op, op_in.state,
                                   op_in.target_qubits, op_in.control_qubits)]
    /\ UNCHANGED <<GPU_CONTEXT, threads, circuit, builder, call, psi, exec_out, trace_out, v_in, v_out,
                   op_again, steps, op_in>>

NextKernels == RunKernels

SpecKernels == InitKernels /\ [][NextKernels]_vars

\* C19: for every kernel, the sequential loop and the parallel loop compute
\* the same amplitude at every basis index from the same state, targets and
\* controls.
C19_CpuBackendsAgree ==
    op_out # Pending =>
        /\ DOMAIN op_out.sequential = 0 .. Dim(op_in.state.num_qubits) - 1
        /\ DOMAIN op_out.parallel = DOMAIN op_out.sequential
        /\ \A i \in DOMAIN op_out.sequential : op_out.parallel[i] = op_out.sequential[i]

\* both loops ran under a control that holds for some indices and not for
\* others, and changed the state
C19_Witness ==
    /\ op_out # Pending
    /\ op_in.control_qubits # <<>>
    /\ op_out.sequential # op_in.state.state_vector
    /\ \E i \in DOMAIN op_out.sequential : ~check_controls(i, op_in.control_qubits)

----------------------------------------------------------------------------
(* Unitary2::new, operator.rs:1741-1767 *)

NonUnitaryMatrix == [kind |-> "NonUnitaryMatrix"]

\* tol = f64::EPSILON * 2.0 = 2^-51
TOL_EXPONENT == 51

Abs(n) == IF n < 0 THEN 0 - n ELSE n

RECURSIVE BitLength(_)
BitLength(n) == IF n = 0 THEN 0 ELSE 1 + BitLength(n \div 2)

\* Complex::norm_sqr
norm_sqr(x) == CMul(x, CConj(x))

\* x.abs() > 2^-e for a real x = (x[1] + x[2] sqrt2) / 2^x[5].  A non-zero
\* x[1] + x[2] sqrt2 is at least 1 / (|x[1]| + 2 |x[2]|) in magnitude, its
\* product with x[1] - x[2] sqrt2 being a non-zero integer; the comparison is
\* exact for the x whose denominator and coefficients are below 2^e together.
ExceedsPow2(x, e) ==
    /\ x # CZero
    /\ x[5] + BitLength(Abs(x[1]) + 2 * Abs(x[2])) <= e

\* mutant: the rows are checked for their norms only
Unitary2_new_norms_only(matrix) ==
    LET a == matrix[1][1]
        b == matrix[1][2]
        c == matrix[2][1]
        d == matrix[2][2]
    IN IF ExceedsPow2(CSub(CAdd(norm_sqr(a), norm_sqr(b)), COne), TOL_EXPONENT)
       THEN Err(NonUnitaryMatrix)
       ELSE IF ExceedsPow2(CSub(CAdd(norm_sqr(c), norm_sqr(d)), COne), TOL_EXPONENT)
       THEN Err(NonUnitaryMatrix)
       ELSE Ok(Unitary2_of(matrix))

Unitary2_new(matrix) ==
    LET a == matrix[1][1]
        b == matrix[1][2]
        c == matrix[2][1]
        d == matrix[2][2]
    IN IF ExceedsPow2(CSub(CAdd(norm_sqr(a), norm_sqr(b)), COne), TOL_EXPONENT)
       THEN Err(NonUnitaryMatrix)
       ELSE IF ExceedsPow2(CSub(CAdd(norm_sqr(c), norm_sqr(d)), COne), TOL_EXPONENT)
       THEN Err(NonUnitaryMatrix)
       ELSE IF ExceedsPow2(norm_sqr(CAdd(CMul(a, CConj(c)), CMul(b, CConj(d)))),
                           2 * TOL_EXPONENT)
       THEN Err(NonUnitaryMatrix)
       ELSE Ok(Unitary2_of(matrix))

----------------------------------------------------------------------------
(* SpecUnitary2: Unitary2::new on a matrix, and the operator it returns     *)
(* applied to a state.                                                      *)

MatrixEntries ==
    {CZero, COne, CNeg(COne), i_complex, sqrt_2_inv, CNeg(sqrt_2_inv),
     CMul(i_complex, sqrt_2_inv)}

Matrices == {<<<<a, b>>, <<c, d>>>> : a, b, c, d \in MatrixEntries}

Unitary2_Inputs ==
    [matrix : Matrices,
     state : {PhaseRampState(2), BasisState(2, 1), BasisState(2, 3)},
     lists : {<<<<0>>, <<>>>>, <<<<1>>, <<0>>>>, <<<<0>>, <<1>>>>}]

InitUnitary2 ==
    /\ GPU_CONTEXT = Idle /\ threads = Idle
    /\ op_in \in Unitary2_Inputs
    /\ call = Pending /\ op_out = Pending
    /\ circuit = Idle /\ builder = Idle
    /\ psi = Idle /\ exec_out = Idle /\ trace_out = Idle
    /\ op_again = Idle /\ steps = 0
    /\ v_in = Idle /\ v_out = Idle

\* let built = Unitary2::new(matrix)
NewUnitary2 ==
    /\ call = Pending
    /\ call' = Called("Unitary2::new", Unitary2_new(op_in.matrix))
    /\ UNCHANGED <<GPU_CONTEXT, threads, circuit, builder, psi, exec_out, trace_out, v_in, v_out,
                   op_again, steps, op_in, op_out>>

\* built?.apply(&state, targets, controls)
ApplyUnitary2 ==
    /\ call # Pending /\ call.result.ok
    /\ op_out = Pending
    /\ op_out' = Operator_apply(call.result.val, op_in.state, op_in.lists[1],
                                op_in.lists[2])
    /\ UNCHANGED <<GPU_CONTEXT, threads, circuit, builder, call, psi, exec_out, trace_out, v_in, v_out,
                   op_again, steps, op_in>>

NextUnitary2 == NewUnitary2 \/ ApplyUnitary2

SpecUnitary2 == InitUnitary2 /\ [][NextUnitary2]_vars

\* |r[1]|^2 + |r[2]|^2 = 1
UnitRow(r) ==
    CAdd(CMul(r[1], CConj(r[1])), CMul(r[2], CConj(r[2]))) = COne

\* r[1] conj(s[1]) + r[2] conj(s[2]) = 0
OrthogonalRows(r, s) ==
    CAdd(CMul(r[1], CConj(s[1])), CMul(r[2], CConj(s[2]))) = CZero

\* C20: Unitary2::new fails with NonUnitaryMatrix when a row of the matrix is
\* not of unit norm or the rows are not orthogonal, and returns the operator
\* holding the matrix otherwise; the operator built sets
\* (new[i], new[j]) = M (old[i], old[j]) on every pair i (bit t = 0),
\* j = i | (1 << t) whose controls hold.
C20_Unitary2 ==
    /\ call # Pending =>
           LET M == op_in.matrix
           IN IF UnitRow(M[1]) /\ UnitRow(M[2]) /\ OrthogonalRows(M[1], M[2])
              THEN call.result = Ok(Unitary2_of(M))
              ELSE call.result = Err(NonUnitaryMatrix)
    /\ (op_out # Pending /\ op_out.ok) =>
           LET M == op_in.matrix
               t == op_in.lists[1][1]
               old == op_in.state.state_vector
               new == op_out.val.state_vector
           IN \A i \in DOMAIN old :
                  (Bit(i, t) = 0 /\ check_controls(i, op_in.lists[2])) =>
                      LET j == SetBit(i, t)
                      IN /\ new[i] = CAdd(CMul(M[1][1], old[i]), CMul(M[1][2], old[j]))
                         /\ new[j] = CAdd(CMul(M[2][1], old[i]), CMul(M[2][2], old[j]))

\* an operator built from a matrix without a zero entry was applied under a
\* control and changed the state
C20_Witness ==
    /\ call # Pending /\ call.result.ok
    /\ \A r, k \in 1 .. 2 : op_in.matrix[r][k] # CZero
    /\ op_in.lists[2] # <<>>
    /\ op_out # Pending /\ op_out.ok
    /\ op_out.val # op_in.state

----------------------------------------------------------------------------
(* SpecGpu: threads calling apply on the accelerator path.  Each call runs  *)
(* execute_on_gpu one device step at a time against the process-wide        *)
(* GPU_CONTEXT.  The amplitude vectors are short stand-ins for the vectors  *)
(* of OPENCL_THRESHOLD_NUM_QUBITS qubits and more that take this path; all  *)
(* their amplitudes (0, 1, -1, i, -i) are exact in single precision, so     *)
(* `as f32` and `as f64` lose nothing on them.                              *)

NumThreads == 2
MaxCalls == 3

Threads == 1 .. NumThreads

GpuContextLockError == [kind |-> "GpuContextLockError"]
OpenCLError(msg) == [kind |-> "OpenCLError", a |-> msg]
\* the errors the context's initialisation can record
AcceleratorUnavailable(msg) == [kind |-> "AcceleratorUnavailable", a |-> msg]
InitErrors == {AcceleratorUnavailable("no platform"), AcceleratorUnavailable("no device")}

\* Float2::new(c.re as f32, c.im as f32)
Float2_new(c) ==
    <<Norm(<<c[1], c[2], 0, 0, c[5]>>), Norm(<<c[3], c[4], 0, 0, c[5]>>)>>
\* Complex::new(f2[0] as f64, f2[1] as f64)
Complex_of_Float2(f2) == Complex_new(f2[1], f2[2])

\* the lazily initialised static before its first use, and after
GpuContext_uninitialised == [initialised |-> FALSE, value |-> Pending, owner |-> 0]
GpuContext_new == [state_buffer |-> <<>>, control_buffer |-> <<>>]
GpuContext_init ==
    {Ok(GpuContext_new)} \cup {Err(e) : e \in InitErrors}

\* a buffer of at least len elements: kept when large enough, replaced by a
\* larger one otherwise (buffers grow and never shrink)
ensure_buffer(buffer, len, zero) ==
    IF Len(buffer) >= len THEN buffer ELSE [k \in 1 .. len |-> zero]
ensure_state_buffer(ctx, num_state_elements) ==
    [ctx EXCEPT !.state_buffer =
        ensure_buffer(@, num_state_elements, Float2_new(CZero))]
ensure_control_buffer(ctx, len) ==
    [ctx EXCEPT !.control_buffer = ensure_buffer(@, IF len = 0 THEN 1 ELSE len, 0)]

\* buffer.write(&data).enq(): data over the front of the buffer
Buffer_write(buffer, data) ==
    [k \in 1 .. Len(buffer) |-> IF k <= Len(data) THEN data[k] ELSE buffer[k]]
\* buffer.read(&mut out).enq(): the front of the buffer, out.len() elements
Buffer_read(buffer, len) == [k \in 1 .. len |-> buffer[k]]

\* state.state_vector.iter().map(|c| Float2::new(..)).collect()
state_vector_f32(state) ==
    [k \in 1 .. Dim(state.num_qubits) |-> Float2_new(state.state_vector[k - 1])]

\* the targets a kernel works on: target_qubit, and q1 for the Swap kernel
kernel_targets(c) == c.target_qubits

\* the named kernel run over the device buffers: the operator's transform of
\* the first 2^num_qubits amplitudes of the state buffer, under the first
\* num_controls entries of the control buffer
Gpu_kernel(ctx, c) ==
    LET n == c.state.num_qubits
        on_device == State([i \in 0 .. Dim(n) - 1 |->
                               Complex_of_Float2(ctx.state_buffer[i + 1])], n)
        controls == [k \in 1 .. Len(c.control_qubits) |-> ctx.control_buffer[k]]
        out == Operator_sequential(c.op, on_device, kernel_targets(c), controls)
    IN [ctx EXCEPT !.state_buffer =
           Buffer_write(@, [k \in 1 .. Dim(n) |-> Float2_new(out[k - 1])])]

\* state_vector_ocl_result.iter().map(|f2| Complex::new(..)).collect()
state_vector_of_result(result) ==
    [i \in 0 .. Len(result) - 1 |-> Complex_of_Float2(result[i + 1])]

\* GPU_CONTEXT.lock() with every thread let in at once
Mutex_lock_unguarded(context, t) == TRUE

\* GPU_CONTEXT.lock(): granted to one thread at a time
Mutex_lock(context, t) == context.owner = 0

\* an apply that answers a failed offload with the sequential loop's result
apply_offloaded_fallback(offload, c) ==
    IF offload.ok
    THEN Ok(State(offload.val, c.state.num_qubits))
    ELSE Ok(State(Operator_sequential(c.op, c.state, c.target_qubits,
                                      c.control_qubits), c.state.num_qubits))

\* the accelerator branch of apply: new_state_vec = execute_on_gpu(..)?;
\* Ok(State { state_vector: new_state_vec, num_qubits })
apply_offloaded(offload, c) ==
    IF offload.ok
    THEN Ok(State(offload.val, c.state.num_qubits))
    ELSE Err(offload.err)

GpuBasis(n, k, amp) ==
    State([i \in 0 .. Dim(n) - 1 |-> IF i = k THEN amp ELSE CZero], n)

\* validated calls of single-precision-exact states
Gpu_Inputs ==
    { [op |-> Pauli("X"), state |-> GpuBasis(1, 0, COne),
       target_qubits |-> <<0>>, control_qubits |-> <<>>],
      [op |-> PhaseS, state |-> GpuBasis(1, 1, COne),
       target_qubits |-> <<0>>, control_qubits |-> <<>>],
      [op |-> Pauli("X"), state |-> GpuBasis(2, 2, i_complex),
       target_qubits |-> <<0>>, control_qubits |-> <<1>>],
      [op |-> SWAP, state |-> GpuBasis(2, 1, CNeg(COne)),
       target_qubits |-> <<0, 1>>, control_qubits |-> <<>>] }

Thread_idle == [pc |-> "idle", calls |-> 0, call |-> Idle, state |-> Idle,
                offload |-> Pending, result |-> Pending]

InitGpu ==
    /\ GPU_CONTEXT = GpuContext_uninitialised
    /\ threads = [t \in Threads |-> Thread_idle]
    /\ circuit = Idle /\ builder = Idle /\ call = Idle
    /\ psi = Idle /\ exec_out = Idle /\ trace_out = Idle
    /\ op_again = Idle /\ steps = 0
    /\ v_in = Idle /\ v_out = Idle /\ op_in = Idle /\ op_out = Idle

GpuFrame == <<circuit, builder, call, psi, exec_out, trace_out, v_in, v_out,
              op_again, op_in, op_out>>
GpuRest == <<GpuFrame, steps>>

\* the positions of execute_on_gpu at which the thread holds the guard
GuardHeld == {"match", "ensure", "write_state", "write_control", "kernel", "read"}
\* the device steps, each of which can fail with an OpenCLError
DeviceSteps == {"ensure", "write_state", "write_control", "kernel", "read"}

\* execute_on_gpu returns r: the guard is dropped and apply returns in turn
Returns(t, r, context) ==
    /\ GPU_CONTEXT' = [context EXCEPT !.owner = 0]
    /\ threads' = [threads EXCEPT ![t].pc = "returned",
                                  ![t].offload = r,
                                  ![t].result = apply_offloaded(r, threads[t].call)]

\* a thread calls op.apply(&state, ..) on the accelerator path
GpuApply(t) ==
    /\ threads[t].pc = "idle"
    /\ steps < MaxCalls
    /\ steps' = steps + 1
    /\ \E c \in Gpu_Inputs :
          threads' = [threads EXCEPT ![t] =
                         [pc |-> "lock", calls |-> threads[t].calls + 1, call |-> c,
                          state |-> c.state, offload |-> Pending, result |-> Pending]]
    /\ UNCHANGED <<GPU_CONTEXT, GpuFrame>>

\* GPU_CONTEXT.lock(): the first use initialises the context, well or badly
GpuLock(t) ==
    /\ threads[t].pc = "lock"
    /\ Mutex_lock(GPU_CONTEXT, t)
    /\ \E v \in (IF GPU_CONTEXT.initialised THEN {GPU_CONTEXT.value}
                 ELSE GpuContext_init) :
          GPU_CONTEXT' = [initialised |-> TRUE, value |-> v, owner |-> t]
    /\ threads' = [threads EXCEPT ![t].pc = "match"]
    /\ UNCHANGED GpuRest

\* match *context_guard { Ok(ctx) => ctx, Err(e) => return Err(e.clone()) }
GpuMatch(t) ==
    /\ threads[t].pc = "match"
    /\ IF GPU_CONTEXT.value.ok
       THEN /\ threads' = [threads EXCEPT ![t].pc = "ensure"]
            /\ UNCHANGED GPU_CONTEXT
       ELSE Returns(t, Err(GPU_CONTEXT.value.err), GPU_CONTEXT)
    /\ UNCHANGED GpuRest

\* ensure_state_buffer(..)? and ensure_control_buffer(..)?
GpuEnsureBuffers(t) ==
    /\ threads[t].pc = "ensure"
    /\ LET c == threads[t].call
           ctx == ensure_control_buffer(
                      ensure_state_buffer(GPU_CONTEXT.value.val,
                                          Dim(c.state.num_qubits)),
                      Len(c.control_qubits))
       IN GPU_CONTEXT' = [GPU_CONTEXT EXCEPT !.value = Ok(ctx)]
    /\ threads' = [threads EXCEPT ![t].pc = "write_state"]
    /\ UNCHANGED GpuRest

\* state_buffer_cloned.write(&state_vector_f32).enq()
GpuWriteState(t) ==
    /\ threads[t].pc = "write_state"
    /\ GPU_CONTEXT' = [GPU_CONTEXT EXCEPT !.value.val.state_buffer =
                          Buffer_write(@, state_vector_f32(threads[t].call.state))]
    /\ threads' = [threads EXCEPT ![t].pc = "write_control"]
    /\ UNCHANGED GpuRest

\* control_buffer_cloned.write(..).enq(): the controls, or one dummy zero
GpuWriteControl(t) ==
    /\ threads[t].pc = "write_control"
    /\ LET control_qubits_i32 == threads[t].call.control_qubits
           data == IF control_qubits_i32 # <<>> THEN control_qubits_i32 ELSE <<0>>
       IN GPU_CONTEXT' = [GPU_CONTEXT EXCEPT !.value.val.control_buffer =
                             Buffer_write(@, data)]
    /\ threads' = [threads EXCEPT ![t].pc = "kernel"]
    /\ UNCHANGED GpuRest

\* kernel_builder.build()? and kernel.enq()
GpuKernel(t) ==
    /\ threads[t].pc = "kernel"
    /\ GPU_CONTEXT' = [GPU_CONTEXT EXCEPT !.value =
                          Ok(Gpu_kernel(GPU_CONTEXT.value.val, threads[t].call))]
    /\ threads' = [threads EXCEPT ![t].pc = "read"]
    /\ UNCHANGED GpuRest

\* state_buffer_cloned.read(&mut state_vector_ocl_result).enq() and Ok(..)
GpuRead(t) ==
    /\ threads[t].pc = "read"
    /\ LET state_vector_ocl_result ==
               Buffer_read(GPU_CONTEXT.value.val.state_buffer,
                           Dim(threads[t].call.state.num_qubits))
       IN Returns(t, Ok(state_vector_of_result(state_vector_ocl_result)), GPU_CONTEXT)
    /\ UNCHANGED GpuRest

\* a device step fails: .map_err(|e| Error::OpenCLError(..))?
GpuFail(t) ==
    /\ threads[t].pc \in DeviceSteps
    /\ Returns(t, Err(OpenCLError(threads[t].pc)), GPU_CONTEXT)
    /\ UNCHANGED GpuRest

\* the caller takes apply's result and goes on
GpuContinue(t) ==
    /\ threads[t].pc = "returned"
    /\ threads' = [threads EXCEPT ![t] = [Thread_idle EXCEPT !.calls = threads[t].calls]]
    /\ UNCHANGED <<GPU_CONTEXT, GpuRest>>

NextGpu ==
    \E t \in Threads :
        \/ GpuApply(t)
        \/ GpuLock(t)
        \/ GpuMatch(t)
        \/ GpuEnsureBuffers(t)
        \/ GpuWriteState(t)
        \/ GpuWriteControl(t)
        \/ GpuKernel(t)
        \/ GpuRead(t)
        \/ GpuFail(t)
        \/ GpuContinue(t)

SpecGpu == InitGpu /\ [][NextGpu]_vars

ContextFailed(e) == GPU_CONTEXT.initialised /\ GPU_CONTEXT.value = Err(e)
GpuReturned(t) == threads[t].pc = "returned"

\* C21: once the context's initialisation has failed with an error, the
\* context keeps that error for good and every call that reaches
\* execute_on_gpu returns it from apply; whenever an offload fails, apply
\* returns the offload's error and no state, and the State the caller passed
\* is as it was.
C21_OffloadErrorsSurface ==
    [][/\ \A e \in InitErrors :
              ContextFailed(e) =>
                  /\ ContextFailed(e)'
                  /\ \A t \in Threads :
                        GpuReturned(t)' => threads'[t].result = Err(e)
        /\ \A t \in Threads :
              GpuReturned(t)' =>
                  /\ threads'[t].offload.ok = threads'[t].result.ok
                  /\ ~threads'[t].offload.ok =>
                         threads'[t].result = Err(threads'[t].offload.err)
                  /\ threads'[t].state = threads'[t].call.state]_vars

\* a thread's second call returned the recorded initialisation error
C21_Witness ==
    \E t \in Threads, e \in InitErrors :
        /\ ContextFailed(e)
        /\ GpuReturned(t) /\ threads[t].calls = 2
        /\ threads[t].result = Err(e)

\* C22: at most one thread is between taking the context's guard and
\* dropping it, so the buffer write, kernel launch and read-back of two
\* calls never interleave, and every call that returns Ok returns the
\* operator's transform of its own input.
C22_OffloadsSerialized ==
    /\ Cardinality({t \in Threads : threads[t].pc \in GuardHeld}) <= 1
    /\ \A t \in Threads :
          threads[t].pc \in GuardHeld => GPU_CONTEXT.owner = t
    /\ \A t \in Threads :
          (GpuReturned(t) /\ threads[t].result.ok) =>
              LET c == threads[t].call IN
              threads[t].result.val =
                  State(Operator_sequential(c.op, c.state, c.target_qubits,
                                            c.control_qubits), c.state.num_qubits)

\* one thread has its result while another, called with a smaller state, is
\* at the read-back on the buffer the first call left behind
C22_Witness ==
    \E t, u \in Threads :
        /\ t # u
        /\ GpuReturned(t) /\ threads[t].result.ok
        /\ threads[u].pc = "read"
        /\ threads[u].call # threads[t].call
        /\ threads[u].call.state.num_qubits < threads[t].call.state.num_qubits

----------------------------------------------------------------------------
(* SpecBuilder: one CircuitBuilder through any sequence of its calls: gates *)
(* and subroutines added, circuits and subroutines built.                   *)

\* Subroutine { gates, num_qubits }: a gate list of the shape of a circuit
Subroutine(gates, num_qubits) == [gates |-> gates, num_qubits |-> num_qubits]
Subroutine_with_gates(gates, num_qubits) == Subroutine(gates, num_qubits)

\* build_subroutine(&mut self): the value returned and self after the call
CircuitBuilder_build_subroutine(self) ==
    LET gates == self.gates
    IN [result |-> Subroutine_with_gates(gates, self.num_qubits),
        self |-> CircuitBuilder(<<>>, self.num_qubits)]

\* add_subroutine(&mut self, subroutine)
CircuitBuilder_add_subroutine(self, subroutine) ==
    CircuitBuilder(self.gates \o subroutine.gates, self.num_qubits)

Subroutines ==
    {Subroutine_with_gates(gates, n) : gates \in GateLists, n \in CircuitQubits}

InitBuilder ==
    /\ GPU_CONTEXT = Idle /\ threads = Idle
    /\ \E n \in CircuitQubits : builder = CircuitBuilder_new(n)
    /\ circuit = Idle
    /\ call = Called("CircuitBuilder::new", Ok(Unit))
    /\ psi = Idle /\ exec_out = Idle /\ trace_out = Idle
    /\ op_again = Idle /\ steps = 0
    /\ v_in = Idle /\ v_out = Idle /\ op_in = Idle /\ op_out = Idle

\* let subroutine = builder.build_subroutine()
BuilderBuildSubroutine ==
    LET r == CircuitBuilder_build_subroutine(builder)
    IN /\ builder' = r.self
       /\ call' = Called("CircuitBuilder::build_subroutine", Ok(r.result))
       /\ UNCHANGED <<circuit, Rest>>

\* builder.add_subroutine(subroutine)
BuilderAddSubroutine ==
    \E subroutine \in Subroutines :
        /\ Len(builder.gates) + Len(subroutine.gates) <= MaxGates
        /\ builder' = CircuitBuilder_add_subroutine(builder, subroutine)
        /\ call' = Called("CircuitBuilder::add_subroutine", Ok(Unit))
        /\ UNCHANGED <<circuit, Rest>>

NextBuilder ==
    \/ BuilderAddGate
    \/ BuilderAddGates
    \/ BuilderAddSubroutine
    \/ BuilderBuild
    \/ BuilderBuildFinal
    \/ BuilderBuildSubroutine

SpecBuilder == InitBuilder /\ [][NextBuilder]_vars

----------------------------------------------------------------------------
(* C24: SWAP, checked under SpecApply *)

\* SWAP's loop taking both ends of a pair
SWAP_visits_unordered(state, target_qubit_1, target_qubit_2, control_qubits) ==
    LET dim == Pow2(state.num_qubits)
    IN ParCollect(dim,
           LAMBDA i:
               IF Bit(i, target_qubit_1) # Bit(i, target_qubit_2)
                  /\ check_controls(i, control_qubits)
               THEN <<i>> ELSE <<>>)

\* the indices i, in loop order, at which SWAP's loop exchanges old[i] and
\* old[j]
SWAP_visits(state, target_qubit_1, target_qubit_2, control_qubits) ==
    LET dim == Pow2(state.num_qubits)
    IN ParCollect(dim,
           LAMBDA i:
               LET target_bit_1 == Bit(i, target_qubit_1)
                   target_bit_2 == Bit(i, target_qubit_2)
               IN IF target_bit_1 # target_bit_2
                  THEN LET j == FlipBit(FlipBit(i, target_qubit_1), target_qubit_2)
                       IN IF i < j /\ check_controls(i, control_qubits)
                          THEN <<i>> ELSE <<>>
                  ELSE <<>>)

\* i XOR (1 << t1) XOR (1 << t2)
SwapPartner(i, t1, t2) ==
    i + (IF Bit(i, t1) = 0 THEN Pow2(t1) ELSE 0 - Pow2(t1))
      + (IF Bit(i, t2) = 0 THEN Pow2(t2) ELSE 0 - Pow2(t2))

Swapped == Op_Succeeded /\ op_in.op = SWAP

\* C24: after SWAP(t1, t2) under controls C the amplitude at i is the input's
\* amplitude at j = i XOR (1 << t1) XOR (1 << t2) when bits t1 and t2 of i
\* differ and every control is 1 in i, and the input's amplitude at i
\* otherwise; the loop exchanges each such pair at exactly one of its two
\* indices; (t2, t1) gives the same result as (t1, t2); and SWAP takes the
\* 2-qubit basis state of index 1 to that of index 2.
C24_SwapExchangesPairs ==
    Swapped =>
        LET t1 == op_in.target_qubits[1]
            t2 == op_in.target_qubits[2]
            C == op_in.control_qubits
            old == op_in.state.state_vector
            new == op_out.val.state_vector
            dim == Dim(op_in.state.num_qubits)
            visits == SWAP_visits(op_in.state, t1, t2, C)
            Exchanged(i) == Bit(i, t1) # Bit(i, t2) /\ ~Blocked(i, C)
        IN /\ DOMAIN new = 0 .. dim - 1
           /\ \A i \in 0 .. dim - 1 :
                 new[i] = IF Exchanged(i) THEN old[SwapPartner(i, t1, t2)] ELSE old[i]
           /\ \A i \in 0 .. dim - 1 :
                 Exchanged(i) =>
                     Cardinality({k \in 1 .. Len(visits) :
                                     visits[k] \in {i, SwapPartner(i, t1, t2)}}) = 1
           /\ \A k \in 1 .. Len(visits) : Exchanged(visits[k])
           /\ op_out = SWAP_apply(op_in.state, <<t2, t1>>, C)
           /\ (op_in.state = BasisState(2, 1) /\ C = <<>>) =>
                  op_out.val = BasisState(2, 2)

\* a controlled SWAP of three qubits exchanged one pair of distinct
\* amplitudes and left another pair, whose control is 0, in place
C24_Witness ==
    /\ Swapped
    /\ op_in.state = PhaseRampState(3)
    /\ op_in.target_qubits = <<2, 0>>
    /\ op_in.control_qubits = <<1>>
    /\ op_out.val.state_vector[3] = op_in.state.state_vector[6]
    /\ op_out.val.state_vector[3] # op_in.state.state_vector[3]
    /\ op_out.val.state_vector[1] = op_in.state.state_vector[1]
    /\ op_in.state.state_vector[1] # op_in.state.state_vector[4]

----------------------------------------------------------------------------
(* SpecPairLoop: the uncontrolled Hadamard pair loop, one iteration a step. *)
(* op_in is the state's qubit count and the target, steps the loop counter  *)
(* k, op_out the indices of new_state_vec written so far, in order.         *)

MaxPairQubits == 5

PairLoop_Inputs ==
    {in \in [num_qubits : 1 .. MaxPairQubits, target_qubit : 0 .. MaxPairQubits - 1] :
        in.target_qubit < in.num_qubits}

InitPairLoop ==
    /\ GPU_CONTEXT = Idle /\ threads = Idle
    /\ op_in \in PairLoop_Inputs
    /\ op_out = <<>>
    /\ steps = 0
    /\ circuit = Idle /\ builder = Idle /\ call = Idle
    /\ psi = Idle /\ exec_out = Idle /\ trace_out = Idle
    /\ op_again = Idle
    /\ v_in = Idle /\ v_out = Idle

\* the body of `for k in 0..(1 << (num_qubits - 1))` at k = steps
PairLoopStep ==
    /\ steps < Pow2(op_in.num_qubits - 1)
    /\ LET k == steps
           i0 == PairIndex0(k, op_in.target_qubit)
           i1 == SetBit(i0, op_in.target_qubit)
       IN op_out' = op_out \o <<i0, i1>>
    /\ steps' = steps + 1
    /\ UNCHANGED <<GPU_CONTEXT, threads, circuit, builder, call, psi, exec_out,
                   trace_out, v_in, v_out, op_again, op_in>>

NextPairLoop == PairLoopStep

SpecPairLoop == InitPairLoop /\ [][NextPairLoop]_vars

PairLoopDone == steps = Pow2(op_in.num_qubits - 1)

\* C25: in the uncontrolled Hadamard pair loop every i0 has bit t = 0, its
\* i1 is i0 with bit t set, and no index is written twice; when the loop
\* ends the i0 are exactly the 2^(N-1) indices with bit t = 0 and the indices
\* written are all 2^N basis indices, each once.
C25_PairLoopPartitions ==
    LET N == op_in.num_qubits
        t == op_in.target_qubit
        I0 == {op_out[2 * k - 1] : k \in 1 .. steps}
        Written == {op_out[m] : m \in 1 .. Len(op_out)}
    IN /\ Len(op_out) = 2 * steps
       /\ \A k \in 1 .. steps :
             /\ Bit(op_out[2 * k - 1], t) = 0
             /\ op_out[2 * k] = op_out[2 * k - 1] + Pow2(t)
       /\ Written \subseteq 0 .. Pow2(N) - 1
       /\ Cardinality(Written) = Len(op_out)
       /\ PairLoopDone =>
             /\ I0 = {i \in 0 .. Pow2(N) - 1 : Bit(i, t) = 0}
             /\ Cardinality(I0) = Pow2(N - 1)
             /\ Written = 0 .. Pow2(N) - 1

\* the loop over a 4-qubit state with an inner target has ended
C25_Witness ==
    /\ PairLoopDone
    /\ op_in.num_qubits = 4
    /\ op_in.target_qubit = 2
    /\ Len(op_out) = 16

----------------------------------------------------------------------------
(* SpecParallel: the rayon branch of a kernel with the work items' updates  *)
(* written to new_state_vec in any order.  op_out holds the collected       *)
(* updates, the positions of the list written so far, and new_state_vec.    *)

MaxParQubits == 2

\* the (index, amplitude) updates of op's rayon branch; the kernels that go
\* through par_iter_mut().enumerate().for_each have one work item per
\* element, producing that element
Operator_updates(op, state, target_qubits, control_qubits) ==
    CASE op.name = "Hadamard" ->
             Hadamard_updates(state, target_qubits[1], control_qubits)
      [] op.name = "Pauli" /\ op.pauli \in {"X", "Y"} ->
             Pauli_updates(op.pauli, state, target_qubits[1], control_qubits)
      [] op.name = "SWAP" ->
             SWAP_updates(state, target_qubits[1], target_qubits[2], control_qubits)
      [] op.name = "RotateX" ->
             RotateX_updates(op, state, target_qubits[1], control_qubits)
      [] op.name = "RotateY" ->
             RotateY_updates(op, state, target_qubits[1], control_qubits)
      [] op.name = "Unitary2" ->
             Unitary2_updates(op, state, target_qubits[1], control_qubits)
      [] OTHER ->
             LET new == Operator_parallel(op, state, target_qubits, control_qubits)
             IN [k \in 1 .. Dim(state.num_qubits) |-> <<k - 1, new[k - 1]>>]

Par_Inputs ==
    {in \in [op : KernelOperators,
             state : {PhaseRampState(n) : n \in 1 .. MaxParQubits},
             target_qubits : SeqsUpTo(0 .. MaxParQubits - 1, SWAP_TARGETS),
             control_qubits : SeqsUpTo(0 .. MaxParQubits - 1, CNOT_CONTROLS)] :
        validate_qubits(in.state, in.target_qubits, in.control_qubits,
                        expected_targets(in.op)).ok}

InitParallel ==
    /\ GPU_CONTEXT = Idle /\ threads = Idle
    /\ op_in \in Par_Inputs
    /\ op_out = Pending
    /\ circuit = Idle /\ builder = Idle /\ call = Idle
    /\ psi = Idle /\ exec_out = Idle /\ trace_out = Idle
    /\ op_again = Idle /\ steps = 0
    /\ v_in = Idle /\ v_out = Idle

ParFrame == <<GPU_CONTEXT, threads, circuit, builder, call, psi, exec_out,
              trace_out, v_in, v_out, op_again, steps, op_in>>

\* let updates = (..).into_par_iter()..collect(), over a clone of the state
CollectUpdates ==
    /\ op_out = Pending
    /\ op_out' = [updates |-> Operator_updates(op_in.op, op_in.state,
                                  op_in.target_qubits, op_in.control_qubits),
                  written |-> {},
                  new_state_vec |-> op_in.state.state_vector]
    /\ UNCHANGED ParFrame

\* new_state_vec[idx] = val, for any update not yet written
WriteUpdate ==
    /\ op_out # Pending
    /\ \E k \in (1 .. Len(op_out.updates)) \ op_out.written :
          op_out' = [op_out EXCEPT
                        !.written = @ \cup {k},
                        !.new_state_vec[op_out.updates[k][1]] = op_out.updates[k][2]]
    /\ UNCHANGED ParFrame

NextParallel == CollectUpdates \/ WriteUpdate

SpecParallel == InitParallel /\ [][NextParallel]_vars

AllWritten == op_out # Pending /\ op_out.written = 1 .. Len(op_out.updates)

\* C26: the updates a kernel's rayon branch collects name each basis index
\* at most once, so every update written is still in place whatever was
\* written after it, and once all are written, in whatever order,
\* new_state_vec is what the branch computes writing them in list order.
C26_UpdatesDisjoint ==
    op_out # Pending =>
        /\ \A k, m \in 1 .. Len(op_out.updates) :
              k # m => op_out.updates[k][1] # op_out.updates[m][1]
        /\ \A k \in 1 .. Len(op_out.updates) :
              op_out.updates[k][1] \in 0 .. Dim(op_in.state.num_qubits) - 1
        /\ \A k \in op_out.written :
              op_out.new_state_vec[op_out.updates[k][1]] = op_out.updates[k][2]
        /\ AllWritten =>
              op_out.new_state_vec =
                  Operator_parallel(op_in.op, op_in.state, op_in.target_qubits,
                                    op_in.control_qubits)

\* RotateX on two qubits: of its four updates the first in list order is
\* the one still to be written, and the three written changed their
\* amplitudes
C26_Witness ==
    /\ op_out # Pending
    /\ op_in.op.name = "RotateX"
    /\ Len(op_out.updates) = 4
    /\ op_out.written = {2, 3, 4}
    /\ \A k \in op_out.written :
          op_out.new_state_vec[op_out.updates[k][1]] #
              op_in.state.state_vector[op_out.updates[k][1]]

----------------------------------------------------------------------------
(* C27: which error a call breaking several rules returns, under SpecApply *)

\* the least element of a non-empty set of positions
First(S) == CHOOSE k \in S : \A m \in S : k <= m

\* the error the precedence of the rules assigns to (n, T, C, expected), as
\* a one-element sequence, or <<>> when no rule is broken
FirstViolation(n, T, C, expected) ==
    LET BadTargets == {k \in 1 .. Len(T) : T[k] >= n}
        BadControls == {k \in 1 .. Len(C) : C[k] >= n \/ C[k] \in Range(T)}
        Repeats == {k \in 1 .. Len(T) : \E l \in k + 1 .. Len(T) : T[l] = T[k]}
    IN IF Len(T) # expected THEN <<InvalidNumberOfQubits(Len(T))>>
       ELSE IF BadTargets # {} THEN <<InvalidQubitIndex(T[First(BadTargets)], n)>>
       ELSE IF BadControls # {}
            THEN LET c == C[First(BadControls)]
                 IN IF c >= n THEN <<InvalidQubitIndex(c, n)>>
                    ELSE <<OverlappingControlAndTargetQubits(c, c)>>
       ELSE IF expected > 1 /\ Repeats # {}
            THEN <<InvalidQubitIndex(T[First(Repeats)], n)>>
       ELSE <<>>

\* the number of rules of the validator the call breaks
Op_RulesBroken ==
    LET n == op_in.state.num_qubits
        T == op_in.target_qubits
        C == op_in.control_qubits
    IN (IF Len(T) # TargetCount(op_in.op) THEN 1 ELSE 0)
       + (IF \E q \in Range(T) \cup Range(C) : q >= n THEN 1 ELSE 0)
       + (IF Range(T) \cap Range(C) # {} THEN 1 ELSE 0)
       + (IF Len(T) = 2 /\ T[1] = T[2] /\ TargetCount(op_in.op) > 1 THEN 1 ELSE 0)

\* C27: apply returns the first failure in the order: target count; first
\* out-of-range target; then, control by control in list order, out of range
\* before overlap with a target; then a repeated target.  CNOT and Toffoli
\* return their own control-count error only when none of these applies.
C27_ErrorPrecedence ==
    Op_Returned =>
        LET e == FirstViolation(op_in.state.num_qubits, op_in.target_qubits,
                                op_in.control_qubits, TargetCount(op_in.op))
            C == op_in.control_qubits
            k == RequiredControls(op_in.op)
        IN /\ e # <<>> => op_out = Err(e[1])
           /\ e = <<>> =>
                 IF k > 0 /\ (Len(C) # k \/ Cardinality(Range(C)) # k)
                 THEN op_out = Err(InvalidNumberOfQubits(Len(C)))
                 ELSE op_out.ok

\* a CNOT call with two controls, the first out of range and the second
\* equal to the target, returned the out-of-range error
C27_Witness ==
    /\ Op_Returned
    /\ op_in.op = CNOT
    /\ Len(op_in.target_qubits) = 1
    /\ Len(op_in.control_qubits) = 2
    /\ op_in.target_qubits[1] < op_in.state.num_qubits
    /\ op_in.control_qubits[1] >= op_in.state.num_qubits
    /\ op_in.control_qubits[2] = op_in.target_qubits[1]
    /\ Op_RulesBroken = 2
    /\ op_out = Err(InvalidQubitIndex(op_in.control_qubits[1], op_in.state.num_qubits))

----------------------------------------------------------------------------
(* C28: pairs are transformed or left alone as a whole, under SpecKernels *)

\* the kernels that work on pairs (i, i | 1 << t)
IsPairKernel(op) ==
    \/ op.name \in {"Hadamard", "RotateX", "RotateY", "Unitary2"}
    \/ op.name = "Pauli" /\ op.pauli \in {"X", "Y"}

PairKernelRan == op_out # Pending /\ IsPairKernel(op_in.op)

\* C28: for every pair kernel and every pair i (bit t = 0), j = i | 1 << t
\* of a validated call, the control predicate has the same value at i and
\* at j, and both CPU loops either write the gate's transform of (old[i],
\* old[j]) to both indices or leave both as they were.
C28_PairsWhole ==
    PairKernelRan =>
        LET t == op_in.target_qubits[1]
            C == op_in.control_qubits
            old == op_in.state.state_vector
            M == ReferenceMatrix(op_in.op)
        IN \A i \in DOMAIN old :
              Bit(i, t) = 0 =>
                  LET j == i + Pow2(t) IN
                  /\ j \in DOMAIN old
                  /\ check_controls(i, C) = check_controls(j, C)
                  /\ \A new \in {op_out.sequential, op_out.parallel} :
                        IF check_controls(i, C)
                        THEN /\ new[i] = CAdd(CMul(M[1][1], old[i]), CMul(M[1][2], old[j]))
                             /\ new[j] = CAdd(CMul(M[2][1], old[i]), CMul(M[2][2], old[j]))
                        ELSE /\ new[i] = old[i]
                             /\ new[j] = old[j]

\* a controlled Hadamard on three qubits changed both amplitudes of a pair
\* whose control is 1 and neither amplitude of a pair whose control is 0
C28_Witness ==
    /\ PairKernelRan
    /\ op_in.op = Hadamard
    /\ op_in.state = PhaseRampState(3)
    /\ op_in.target_qubits = <<0>>
    /\ op_in.control_qubits = <<1>>
    /\ op_out.sequential[2] # op_in.state.state_vector[2]
    /\ op_out.sequential[3] # op_in.state.state_vector[3]
    /\ op_out.sequential[0] = op_in.state.state_vector[0]
    /\ op_out.sequential[1] = op_in.state.state_vector[1]

----------------------------------------------------------------------------
(* C29: the indices the kernels use, under SpecApply *)

\* a pair loop whose uncontrolled Hadamard variant runs k over all of 0..dim
Kernel_accesses_full_range(op, state, target_qubits, control_qubits) ==
    LET dim == Pow2(state.num_qubits)
        t == target_qubits[1]
    IN UNION {{PairIndex0(k, t), SetBit(PairIndex0(k, t), t)} : k \in 0 .. dim - 1}

\* the indices at which op's CPU loops read state.state_vector or write
\* new_state_vec: i0, i1 of the uncontrolled Hadamard loop; i and
\* j = i | (1 << t) of the pair loops; i and j = i ^ (1 << t1) ^ (1 << t2) of
\* SWAP; i of the loops that work element by element
Kernel_accesses(op, state, target_qubits, control_qubits) ==
    LET dim == Pow2(state.num_qubits)
        t == target_qubits[1]
        Pairs == UNION {{i, SetBit(i, t)} :
                           i \in {i \in 0 .. dim - 1 :
                                     Bit(i, t) = 0 /\ check_controls(i, control_qubits)}}
        Elements == {i \in 0 .. dim - 1 : check_controls(i, control_qubits)}
    IN CASE op.name = "Hadamard" /\ Len(control_qubits) = 0 ->
                UNION {{PairIndex0(k, t), SetBit(PairIndex0(k, t), t)} :
                          k \in 0 .. Pow2(state.num_qubits - 1) - 1}
         [] op.name = "Hadamard" /\ Len(control_qubits) # 0 -> Pairs
         [] op.name = "Pauli" /\ op.pauli = "Z" -> Elements
         [] op.name \in {"Pauli", "CNOT", "Toffoli", "RotateX", "RotateY", "Unitary2"}
                /\ ~(op.name = "Pauli" /\ op.pauli = "Z") -> Pairs
         [] op.name = "SWAP" ->
                UNION {{i, FlipBit(FlipBit(i, t), target_qubits[2])} :
                          i \in {i \in 0 .. dim - 1 :
                                    /\ Bit(i, t) # Bit(i, target_qubits[2])
                                    /\ i < FlipBit(FlipBit(i, t), target_qubits[2])
                                    /\ check_controls(i, control_qubits)}}
         [] op.name = "Identity" -> {}
         [] OTHER -> Elements

\* the call reaches a kernel: the validator and, for CNOT and Toffoli, the
\* test of the controls let it through
Op_ReachesKernel ==
    /\ op_in # Idle
    /\ validate_qubits(op_in.state, op_in.target_qubits, op_in.control_qubits,
                       TargetCount(op_in.op)).ok
    /\ RequiredControls(op_in.op) > 0 =>
           /\ Len(op_in.control_qubits) = RequiredControls(op_in.op)
           /\ Cardinality(Range(op_in.control_qubits)) = RequiredControls(op_in.op)

\* C29: a call on a 0-qubit state never reaches a kernel: apply returns
\* InvalidQubitIndex or InvalidNumberOfQubits; and every index a kernel
\* reads or writes on a state of N >= 1 qubits is below 2^N.
C29_KernelIndicesInBounds ==
    /\ Op_ReachesKernel =>
          /\ op_in.state.num_qubits >= 1
          /\ Kernel_accesses(op_in.op, op_in.state, op_in.target_qubits,
                             op_in.control_qubits)
                 \subseteq 0 .. Pow2(op_in.state.num_qubits) - 1
          /\ Op_Returned => op_out.ok
    /\ (Op_Returned /\ op_in.state.num_qubits = 0) =>
          /\ ~op_out.ok
          /\ op_out.err.kind \in {"InvalidQubitIndex", "InvalidNumberOfQubits"}
          /\ ~Op_ReachesKernel
    /\ (Op_Returned /\ ~Op_ReachesKernel) => ~op_out.ok

\* an uncontrolled Hadamard on the highest qubit of a 3-qubit state used the
\* highest index, 7, and returned a state
C29_Witness ==
    /\ Op_Succeeded
    /\ op_in.op = Hadamard
    /\ op_in.state.num_qubits = 3
    /\ op_in.target_qubits = <<2>>
    /\ op_in.control_qubits = <<>>
    /\ Kernel_accesses(op_in.op, op_in.state, op_in.target_qubits,
                       op_in.control_qubits) = 0 .. 7

----------------------------------------------------------------------------
(* SpecCircuit: a Circuit built by new, with_gates and add_gate, with the   *)
(* arguments of the last call kept next to what it returned.                *)

CalledWith(fn, args, result) == [fn |-> fn, args |-> args, result |-> result]

InitCircuit ==
    /\ GPU_CONTEXT = Idle /\ threads = Idle
    /\ \E n \in CircuitQubits :
          /\ circuit = Circuit_new(n)
          /\ call = CalledWith("Circuit::new", [num_qubits |-> n], Ok(Unit))
    /\ builder = Idle
    /\ psi = Idle /\ exec_out = Idle /\ trace_out = Idle
    /\ op_again = Idle /\ steps = 0
    /\ v_in = Idle /\ v_out = Idle /\ op_in = Idle /\ op_out = Idle

\* let circuit = Circuit::new(n)
NewCircuit ==
    \E n \in CircuitQubits :
        /\ circuit' = Circuit_new(n)
        /\ call' = CalledWith("Circuit::new", [num_qubits |-> n], Ok(Unit))
        /\ UNCHANGED <<builder, Rest>>

\* let circuit = Circuit::with_gates(gates, n)?: on an error the caller has
\* no new circuit
WithGates ==
    \E gates \in GateLists, n \in CircuitQubits :
        LET r == Circuit_with_gates(gates, n)
        IN /\ circuit' = IF r.ok THEN r.val ELSE circuit
           /\ call' = CalledWith("Circuit::with_gates",
                                 [gates |-> gates, num_qubits |-> n], r)
           /\ UNCHANGED <<builder, Rest>>

\* circuit.add_gate(gate)
AddGate ==
    \E gate \in Gates :
        /\ Len(circuit.gates) < MaxGates
        /\ LET r == Circuit_add_gate(circuit, gate)
           IN /\ circuit' = r.self
              /\ call' = CalledWith("Circuit::add_gate", [gate |-> gate], r.result)
        /\ UNCHANGED <<builder, Rest>>

NextCircuit == NewCircuit \/ WithGates \/ AddGate

SpecCircuit == InitCircuit /\ [][NextCircuit]_vars

\* C30: an add_gate that returns an error leaves gates and num_qubits as
\* they were; one that succeeds leaves the earlier gates in their order with
\* the new gate after them; with_gates returns an error and no circuit when
\* any of the gates it is given has an index out of range.
C30_FailedAppendLeavesCircuit ==
    [][/\ call'.fn = "Circuit::add_gate" =>
             /\ call'.result.ok <=> GateInRange(call'.args.gate, circuit.num_qubits)
             /\ IF call'.result.ok
                THEN /\ circuit'.gates = Append(circuit.gates, call'.args.gate)
                     /\ circuit'.num_qubits = circuit.num_qubits
                ELSE /\ circuit'.gates = circuit.gates
                     /\ circuit'.num_qubits = circuit.num_qubits
       /\ call'.fn = "Circuit::with_gates" =>
             LET gates == call'.args.gates
                 n == call'.args.num_qubits
             IN IF \E k \in 1 .. Len(gates) : ~GateInRange(gates[k], n)
                THEN ~call'.result.ok /\ circuit' = circuit
                ELSE /\ call'.result = Ok(Circuit(gates, n))
                     /\ circuit' = Circuit(gates, n)]_vars

\* an add_gate on a circuit of one gate returned an error, and the circuit
\* still has that one gate
C30_Witness ==
    /\ call.fn = "Circuit::add_gate"
    /\ ~call.result.ok
    /\ Len(circuit.gates) = 1
    /\ ~GateInRange(call.args.gate, circuit.num_qubits)

====
